---- MODULE Spec2Model ----
(***************************************************************************)
(* The normalisation -> diff -> classification pipeline of                 *)
(* scripts/compat-harness.py, the coverage text parser of                  *)
(* SwiftMTPKit/Tests/coverage-report.py and the coverage gate of           *)
(* SwiftMTPKit/scripts/coverage_gate.py.                                   *)
(*                                                                         *)
(* Strings that the code concatenates, compares by prefix or sorts (diff   *)
(* keys, overlay patterns, file paths) are sequences of tokens.  The token *)
(* set is prefix-free, so equality, startswith and lexicographic order on  *)
(* token sequences coincide with those on the concatenated strings.        *)
(* Python dicts are functions whose DOMAIN is the set of keys present;     *)
(* an Optional value is <<>> (None) or <<v>>.                              *)
(***************************************************************************)
EXTENDS Integers, Sequences, FiniteSets, TLC

VARIABLES
    pc,              \* stage of the run
    args,            \* the parsed command line
    completed,       \* the CompletedProcess of each tool run
    libmtp_detect,   \* raw libmtp device record
    swiftmtp_probe,  \* raw SwiftMTP device record
    libmtp_files,    \* raw libmtp file list
    libmtp_folders,  \* raw libmtp folder list
    swiftmtp_ls,     \* raw SwiftMTP listing
    norm_lib,        \* canonical device, libmtp side
    norm_swift,      \* canonical device, SwiftMTP side
    lib_files,       \* canonical file list, libmtp side
    swift_files,     \* canonical file list, SwiftMTP side
    ts_tol,          \* timestamp tolerance in seconds
    expectations,    \* expectation overlay
    diffs,           \* current list of DiffEntry
    passes,          \* the diff list after each application of _classify_diffs
    evidence,        \* what _write_evidence wrote, None before
    exit_code,       \* what main returned, None before
    parser,          \* SwiftCoverageParser.parse_llvm_cov_text: text, i, files
    gate             \* coverage_gate.main: arguments, coverage JSON, result

vars == <<pc, args, completed, libmtp_detect, swiftmtp_probe, libmtp_files,
          libmtp_folders, swiftmtp_ls, norm_lib, norm_swift, lib_files,
          swift_files, ts_tol, expectations, diffs, passes, evidence, exit_code,
          parser, gate>>

----------------------------------------------------------------------------
(* Python values *)

None == <<>>

Some(v) == <<v>>

EmptyDict == <<>>

\* dict.get(k, default)
Get(d, k, default) == IF k \in DOMAIN d THEN d[k] ELSE default

\* dict.get(k): an Optional
GetOpt(d, k) == IF k \in DOMAIN d THEN Some(d[k]) ELSE None

----------------------------------------------------------------------------
(* Strings as token sequences *)

\* Code point order of the tokens' first differing characters.
TokRank(t) ==
    CASE t = "."             -> 1
      [] t = "/"             -> 2
      [] t = "a"             -> 3
      [] t = "b"             -> 4
      [] t = "device"        -> 5
      [] t = "file"          -> 6
      [] t = "firmware"      -> 7
      [] t = "friendly_name" -> 8
      [] t = "manufacturer"  -> 9
      [] t = "model"         -> 10
      [] t = "mtime"         -> 11
      [] t = "size_bytes"    -> 12
      [] t = "storages"      -> 13
      [] t = "txt"           -> 14

\* str.startswith
StartsWith(s, p) == Len(p) <= Len(s) /\ SubSeq(s, 1, Len(p)) = p

\* s < t on strings
RECURSIVE StrLess(_, _)
StrLess(s, t) ==
    IF t = <<>> THEN FALSE
    ELSE IF s = <<>> THEN TRUE
    ELSE IF Head(s) = Head(t) THEN StrLess(Tail(s), Tail(t))
    ELSE TokRank(Head(s)) < TokRank(Head(t))

\* sorted(S) for a set of strings: the k-th is the one with k - 1 below it
SortedStrings(S) ==
    [k \in 1..Cardinality(S) |->
        CHOOSE x \in S : Cardinality({y \in S : StrLess(y, x)}) = k - 1]

----------------------------------------------------------------------------
(* Labels *)

LABEL_BUG_SWIFTMTP == "bug_swiftmtp"

LABEL_BUG_LIBMTP == "bug_libmtp"

LABEL_INTENTIONAL == "intentional"

LABEL_QUIRK_NEEDED == "quirk_needed"

LABEL_UNKNOWN == "unknown"

_ALL_LABELS == <<LABEL_BUG_SWIFTMTP, LABEL_BUG_LIBMTP, LABEL_INTENTIONAL,
                 LABEL_QUIRK_NEEDED, LABEL_UNKNOWN>>

\* DiffEntry.__init__ with the default label and reason
DiffEntry(key, libmtp_val, swiftmtp_val) ==
    [key |-> key, libmtp_val |-> libmtp_val, swiftmtp_val |-> swiftmtp_val,
     label |-> LABEL_UNKNOWN, reason |-> ""]

----------------------------------------------------------------------------
(* Expectation overlay - classification *)

Sections == <<"intentional_differences", "quirk_needed", "known_bugs">>

\* An insertion-ordered dict is a sequence of <<key, value>> with distinct
\* keys; d[k] = v keeps the position of a key already present.
DictSet(d, k, v) ==
    IF \E i \in 1..Len(d) : d[i][1] = k
    THEN [i \in 1..Len(d) |-> IF d[i][1] = k THEN <<k, v>> ELSE d[i]]
    ELSE Append(d, <<k, v>>)

\* {**a, **b}
RECURSIVE DictMerge(_, _)
DictMerge(a, b) ==
    IF b = <<>> THEN a
    ELSE DictMerge(DictSet(a, b[1][1], b[1][2]), Tail(b))

section_label_map(section) ==
    CASE section = "intentional_differences" -> Some(LABEL_INTENTIONAL)
      [] section = "quirk_needed"            -> Some(LABEL_QUIRK_NEEDED)
      [] section = "known_bugs"              -> None
      [] OTHER                               -> None

\* entry.get("label", implied) or LABEL_UNKNOWN
EntryLabel(entry, implied) ==
    LET got == IF "label" \in DOMAIN entry THEN Some(entry["label"]) ELSE implied
    IN  IF got = None \/ got = Some("") THEN LABEL_UNKNOWN ELSE got[1]

RECURSIVE BuildMapLoop(_, _, _)
BuildMapLoop(entries, implied, result) ==
    IF entries = <<>> THEN result
    ELSE LET entry  == Head(entries)
             key    == Get(entry, "key", <<>>)
             reason == Get(entry, "reason", "")
             lbl    == EntryLabel(entry, implied)
         IN  BuildMapLoop(Tail(entries), implied,
                          IF key # <<>> THEN DictSet(result, key, <<lbl, reason>>)
                          ELSE result)

_build_map(exp, section) ==
    BuildMapLoop(Get(exp, section, <<>>), section_label_map(section), <<>>)

all_patterns(exp) ==
    DictMerge(DictMerge(_build_map(exp, "intentional_differences"),
                        _build_map(exp, "quirk_needed")),
              _build_map(exp, "known_bugs"))

\* KeyMatches without the "." after the pattern: a bare prefix test
KeyMatchesBarePrefix(key, pattern) ==
    key = pattern \/ StartsWith(key, pattern)

\* diff.key == pattern or diff.key.startswith(pattern + ".")
KeyMatches(key, pattern) ==
    key = pattern \/ StartsWith(key, pattern \o <<".">>)

\* ClassifyOne that adds the reason to the one already there
ClassifyOneMerging(diff, patterns) ==
    IF \E i \in 1..Len(patterns) : KeyMatches(diff.key, patterns[i][1])
    THEN LET i == CHOOSE j \in 1..Len(patterns) :
                     /\ KeyMatches(diff.key, patterns[j][1])
                     /\ \A k \in 1..(j - 1) : ~KeyMatches(diff.key, patterns[k][1])
         IN  [diff EXCEPT !.label = patterns[i][2][1],
                          !.reason = diff.reason \o patterns[i][2][2]]
    ELSE diff

\* The inner loop over all_patterns.items(), with its break.
ClassifyOne(diff, patterns) ==
    IF \E i \in 1..Len(patterns) : KeyMatches(diff.key, patterns[i][1])
    THEN LET i == CHOOSE j \in 1..Len(patterns) :
                     /\ KeyMatches(diff.key, patterns[j][1])
                     /\ \A k \in 1..(j - 1) : ~KeyMatches(diff.key, patterns[k][1])
         IN  [diff EXCEPT !.label = patterns[i][2][1], !.reason = patterns[i][2][2]]
    ELSE diff

\* _classify_diffs that returns the entries a pattern matched, not all
_classify_diffs_matched_only(ds, exp) ==
    LET patterns == all_patterns(exp)
    IN  SelectSeq([i \in 1..Len(ds) |-> ClassifyOne(ds[i], patterns)],
                  LAMBDA d : \E j \in 1..Len(patterns) :
                                 KeyMatches(d.key, patterns[j][1]))

_classify_diffs(ds, exp) ==
    LET patterns == all_patterns(exp)
    IN  [i \in 1..Len(ds) |-> ClassifyOne(ds[i], patterns)]

----------------------------------------------------------------------------
(* Normalisation *)

\* sorted(s, key=...) for string keys, keys[i] being the key of s[i]: stable
SortedByStr(s, keys) ==
    LET pos(i) == 1 + Cardinality({j \in 1..Len(s) :
                        \/ StrLess(keys[j], keys[i])
                        \/ (keys[j] = keys[i] /\ j < i)})
    IN  [k \in 1..Len(s) |-> s[CHOOSE i \in 1..Len(s) : pos(i) = k]]

\* sorted(s, key=...) for integer keys: stable
SortedByInt(s, keys) ==
    LET pos(i) == 1 + Cardinality({j \in 1..Len(s) :
                        \/ keys[j] < keys[i]
                        \/ (keys[j] = keys[i] /\ j < i)})
    IN  [k \in 1..Len(s) |-> s[CHOOSE i \in 1..Len(s) : pos(i) = k]]

\* key=lambda s: s.get("description", "")
Descriptions(s) == [i \in 1..Len(s) |-> Get(s[i], "description", <<>>)]

\* key=lambda x: x["path"]
Paths(s) == [i \in 1..Len(s) |-> s[i].path]

\* key=lambda f: f.get("id", 0)
Ids(s) == [i \in 1..Len(s) |-> Get(s[i], "id", 0)]

\* sorted(out, key=lambda x: x["path"])
SortedByPath(s) == SortedByStr(s, Paths(s))

\* sorted([...], key=lambda s: s.get("description", ""))
SortedByDescription(s) == SortedByStr(s, Descriptions(s))

\* f"{parent}/{name}" if parent else name
JoinPath(parent, name) ==
    IF parent # <<>> THEN parent \o <<"/">> \o name ELSE name

LibStorage(s) ==
    [description    |-> Get(s, "description", <<>>),
     capacity_bytes |-> Get(s, "capacity_bytes", 0)]

\* _norm_lib that copies the serial number
_norm_lib_with_serial(d) ==
    LET devices  == Get(d, "devices", <<>>)
        dev      == IF devices # <<>> THEN devices[1] ELSE EmptyDict
        raw      == Get(dev, "storages", <<>>)
        storages == SortedByDescription([i \in 1..Len(raw) |-> LibStorage(raw[i])])
    IN  [manufacturer  |-> Get(dev, "manufacturer", ""),
         model         |-> Get(dev, "model", ""),
         firmware      |-> Get(dev, "firmware", ""),
         friendly_name |-> Get(dev, "friendly_name", ""),
         serial        |-> Get(dev, "serial", ""),
         storages      |-> storages]

_norm_lib(d) ==
    LET devices  == Get(d, "devices", <<>>)
        dev      == IF devices # <<>> THEN devices[1] ELSE EmptyDict
        raw      == Get(dev, "storages", <<>>)
        storages == SortedByDescription([i \in 1..Len(raw) |-> LibStorage(raw[i])])
    IN  [manufacturer  |-> Get(dev, "manufacturer", ""),
         model         |-> Get(dev, "model", ""),
         firmware      |-> Get(dev, "firmware", ""),
         friendly_name |-> Get(dev, "friendly_name", ""),
         storages      |-> storages]

SwiftStorage(s) ==
    [description    |-> Get(s, "description", Get(s, "name", <<>>)),
     capacity_bytes |-> Get(s, "capacityBytes", Get(s, "capacity_bytes", 0))]

_norm_swift(d) ==
    LET dev      == Get(d, "device", d)
        raw      == Get(dev, "storages", <<>>)
        storages == SortedByDescription([i \in 1..Len(raw) |-> SwiftStorage(raw[i])])
    IN  [manufacturer  |-> Get(dev, "manufacturer", ""),
         model         |-> Get(dev, "model", Get(dev, "friendlyName", "")),
         firmware      |-> Get(dev, "firmwareVersion", Get(dev, "firmware", "")),
         friendly_name |-> Get(dev, "friendlyName", Get(dev, "friendly_name", "")),
         storages      |-> storages]

_normalise_device(detect, probe) == <<_norm_lib(detect), _norm_swift(probe)>>

\* The loop that fills folder_map, over the folders sorted by id.  Every
\* folder record of _parse_mtp_folders has a name, so the default str(fid)
\* of folder.get("name", str(fid)) is never taken.
RECURSIVE FolderMapLoop(_, _)
FolderMapLoop(folders, folder_map) ==
    IF folders = <<>> THEN folder_map
    ELSE LET folder == Head(folders)
             fid    == Get(folder, "id", 0)
             parent == Get(folder_map, Get(folder, "parent_id", 0), <<>>)
             name   == folder.name
             path   == JoinPath(parent, name)
         IN  FolderMapLoop(Tail(folders),
                 [k \in DOMAIN folder_map \cup {fid} |->
                     IF k = fid THEN path ELSE folder_map[k]])

FolderMap(folders) ==
    FolderMapLoop(SortedByInt(folders, Ids(folders)), [k \in {0} |-> <<>>])

LibFileEntry(f, folder_map) ==
    LET parent_path == Get(folder_map, Get(f, "parent_id", 0), <<>>)
        name        == Get(f, "name", <<>>)
        path        == JoinPath(parent_path, name)
        size        == Get(f, "size_bytes", 0)
    IN  IF "mtime" \in DOMAIN f
        THEN [path |-> path, size_bytes |-> size, mtime |-> f["mtime"]]
        ELSE [path |-> path, size_bytes |-> size]

\* _lib_files that skips a file whose parent is not in folder_map
_lib_files_dropping(files, folders) ==
    LET folder_map == FolderMap(folders)
        kept       == SelectSeq(files,
                          LAMBDA f : Get(f, "parent_id", 0) \in DOMAIN folder_map)
    IN  SortedByPath([i \in 1..Len(kept) |-> LibFileEntry(kept[i], folder_map)])

_lib_files(files, folders) ==
    LET folder_map == FolderMap(folders)
    IN  SortedByPath([i \in 1..Len(files) |-> LibFileEntry(files[i], folder_map)])

\* {**item, "path": path}
WithPath(item, path) ==
    [k \in DOMAIN item \cup {"path"} |-> IF k = "path" THEN path ELSE item[k]]

RECURSIVE _flatten_tree(_, _)
_flatten_tree(items, prefix) ==
    IF items = <<>> THEN <<>>
    ELSE LET item == Head(items)
             name == Get(item, "name", <<>>)
             path == JoinPath(prefix, name)
             here == IF GetOpt(item, "type") = Some("folder")
                     THEN _flatten_tree(Get(item, "children", <<>>), path)
                     ELSE <<WithPath(item, path)>>
         IN  here \o _flatten_tree(Tail(items), prefix)

\* A raw mtime is an integer here: int(raw_mtime) leaves it as it is.
SwiftFileEntry(item) ==
    LET path      == Get(item, "path", Get(item, "name", <<>>))
        size      == Get(item, "sizeBytes", Get(item, "size_bytes", 0))
        raw_mtime == IF "modificationDate" \in DOMAIN item
                     THEN Some(item["modificationDate"])
                     ELSE GetOpt(item, "mtime")
    IN  IF raw_mtime # None
        THEN [path |-> path, size_bytes |-> size, mtime |-> raw_mtime[1]]
        ELSE [path |-> path, size_bytes |-> size]

\* swiftmtp_ls is [type |-> "list", value |-> items] or
\* [type |-> "dict", value |-> a dict]
_swift_files(ls) ==
    LET items == IF ls.type = "list" THEN ls.value
                 ELSE IF ls.type = "dict" THEN Get(ls.value, "items", <<>>)
                 ELSE <<>>
        flat  == _flatten_tree(items, <<>>)
    IN  SortedByPath([i \in 1..Len(flat) |-> SwiftFileEntry(flat[i])])

_normalise_files(files, folders, ls) ==
    <<_lib_files(files, folders), _swift_files(ls)>>

----------------------------------------------------------------------------
(* Diff engine *)

\* DiffDeviceLoop that compares the storage lists by identity (is not):
\* two lists built apart are never the same object
RECURSIVE DiffDeviceLoopIdentity(_, _, _)
DiffDeviceLoopIdentity(keys, a_dev, b_dev) ==
    IF keys = <<>> THEN <<>>
    ELSE LET key == Head(keys)[1]
             a   == GetOpt(a_dev, key)
             b   == GetOpt(b_dev, key)
         IN  (IF a # b \/ key = "storages"
              THEN <<DiffEntry(<<"device", ".", key>>, a, b)>> ELSE <<>>)
             \o DiffDeviceLoopIdentity(Tail(keys), a_dev, b_dev)

\* The dict keys are field names; a diff key is "device." + name.
RECURSIVE DiffDeviceLoop(_, _, _)
DiffDeviceLoop(keys, a_dev, b_dev) ==
    IF keys = <<>> THEN <<>>
    ELSE LET key == Head(keys)[1]
             a   == GetOpt(a_dev, key)
             b   == GetOpt(b_dev, key)
         IN  (IF a # b THEN <<DiffEntry(<<"device", ".", key>>, a, b)>> ELSE <<>>)
             \o DiffDeviceLoop(Tail(keys), a_dev, b_dev)

\* _diff_device that compares a field only when both sides have a value
\* for it (if a and b and a != b)
_diff_device_both_set(a_dev, b_dev) ==
    SelectSeq(DiffDeviceLoop(SortedStrings({<<k>> : k \in DOMAIN a_dev \cup DOMAIN b_dev}),
                             a_dev, b_dev),
              LAMBDA d : /\ d.libmtp_val \notin {None, Some(""), Some(<<>>)}
                         /\ d.swiftmtp_val \notin {None, Some(""), Some(<<>>)})

_diff_device(a_dev, b_dev) ==
    DiffDeviceLoop(SortedStrings({<<k>> : k \in DOMAIN a_dev \cup DOMAIN b_dev}),
                   a_dev, b_dev)

\* {f["path"]: f for f in files}: the last entry of a path stays
PathMap(files) ==
    [p \in {files[i].path : i \in 1..Len(files)} |->
        files[CHOOSE i \in 1..Len(files) :
                /\ files[i].path = p
                /\ \A j \in (i + 1)..Len(files) : files[j].path # p]]

Abs(n) == IF n < 0 THEN -n ELSE n

\* OutsideTolerance with >= for >
OutsideToleranceInclusive(a_mt, b_mt, tol) == Abs(a_mt - b_mt) >= tol

\* abs(a_mt - b_mt) > ts_tol
OutsideTolerance(a_mt, b_mt, tol) == Abs(a_mt - b_mt) > tol

\* DiffOnePath with the two values of a libmtp-only file swapped
DiffOnePathSwapped(path, lib_map, swift_map, tol) ==
    LET a == GetOpt(lib_map, path)
        b == GetOpt(swift_map, path)
    IN  IF a = None THEN <<DiffEntry(<<"file", ".">> \o path, None, b)>>
        ELSE IF b = None THEN <<DiffEntry(<<"file", ".">> \o path, None, a)>>
        ELSE LET a_sz == GetOpt(a[1], "size_bytes")
                 b_sz == GetOpt(b[1], "size_bytes")
                 a_mt == GetOpt(a[1], "mtime")
                 b_mt == GetOpt(b[1], "mtime")
             IN  (IF a_sz # b_sz
                  THEN <<DiffEntry(<<"file", ".">> \o path \o <<".", "size_bytes">>,
                                   a_sz, b_sz)>>
                  ELSE <<>>)
                 \o
                 (IF a_mt # None /\ b_mt # None
                     /\ OutsideTolerance(a_mt[1], b_mt[1], tol)
                  THEN <<DiffEntry(<<"file", ".">> \o path \o <<".", "mtime">>,
                                   a_mt, b_mt)>>
                  ELSE <<>>)

\* One iteration of the loop over the sorted union of paths.
DiffOnePath(path, lib_map, swift_map, tol) ==
    LET a == GetOpt(lib_map, path)
        b == GetOpt(swift_map, path)
    IN  IF a = None THEN <<DiffEntry(<<"file", ".">> \o path, None, b)>>
        ELSE IF b = None THEN <<DiffEntry(<<"file", ".">> \o path, a, None)>>
        ELSE LET a_sz == GetOpt(a[1], "size_bytes")
                 b_sz == GetOpt(b[1], "size_bytes")
                 a_mt == GetOpt(a[1], "mtime")
                 b_mt == GetOpt(b[1], "mtime")
             IN  (IF a_sz # b_sz
                  THEN <<DiffEntry(<<"file", ".">> \o path \o <<".", "size_bytes">>,
                                   a_sz, b_sz)>>
                  ELSE <<>>)
                 \o
                 (IF a_mt # None /\ b_mt # None
                     /\ OutsideTolerance(a_mt[1], b_mt[1], tol)
                  THEN <<DiffEntry(<<"file", ".">> \o path \o <<".", "mtime">>,
                                   a_mt, b_mt)>>
                  ELSE <<>>)

RECURSIVE DiffFilesLoop(_, _, _, _)
DiffFilesLoop(paths, lib_map, swift_map, tol) ==
    IF paths = <<>> THEN <<>>
    ELSE DiffOnePath(Head(paths), lib_map, swift_map, tol)
         \o DiffFilesLoop(Tail(paths), lib_map, swift_map, tol)

_diff_files(lfiles, sfiles, tol) ==
    LET lib_map   == PathMap(lfiles)
        swift_map == PathMap(sfiles)
    IN  DiffFilesLoop(SortedStrings(DOMAIN lib_map \cup DOMAIN swift_map),
                      lib_map, swift_map, tol)

----------------------------------------------------------------------------
(* Collection: _run, LibmtpRunner, SwiftMTPRunner *)

\* The text of a stream is [lines |-> ...], a sequence of lines, or
\* [json |-> v], a well-formed JSON document that denotes v.  A line is the
\* record of what the parsers' patterns take from it: its kind and the
\* groups matched; kind "other" when no pattern matches.
NoText == [lines |-> <<>>]

Lines(text) == IF "lines" \in DOMAIN text THEN text.lines ELSE <<[kind |-> "other"]>>

\* _run that hands on what the command had written when it timed out
_run_keeping_partial_output(ran) ==
    IF ran.kind = "FileNotFoundError"
    THEN [returncode |-> 127, stdout |-> NoText,
          stderr |-> [lines |-> <<[kind |-> "other"]>>]]
    ELSE IF ran.kind = "TimeoutExpired"
    THEN [returncode |-> 124, stdout |-> ran.output,
          stderr |-> [lines |-> <<[kind |-> "other"]>>]]
    ELSE [returncode |-> ran.returncode, stdout |-> ran.stdout,
          stderr |-> ran.stderr]

\* _run.  ran is what the operating system did with the command:
\* [kind |-> "exit", returncode, stdout, stderr], or
\* [kind |-> "FileNotFoundError"], or [kind |-> "TimeoutExpired", output],
\* output being what the command had written by then.
_run(ran) ==
    IF ran.kind = "FileNotFoundError"
    THEN [returncode |-> 127, stdout |-> NoText,
          stderr |-> [lines |-> <<[kind |-> "other"]>>]]
    ELSE IF ran.kind = "TimeoutExpired"
    THEN [returncode |-> 124, stdout |-> NoText,
          stderr |-> [lines |-> <<[kind |-> "other"]>>]]
    ELSE [returncode |-> ran.returncode, stdout |-> ran.stdout,
          stderr |-> ran.stderr]

\* d[k] = v on a dict
SetKey(d, k, v) == [x \in DOMAIN d \cup {k} |-> IF x = k THEN v ELSE d[x]]

\* The loop of _parse_mtp_detect; cur is the last device appended.
RECURSIVE ParseDetectLoop(_, _)
ParseDetectLoop(lines, devices) ==
    IF lines = <<>> THEN devices
    ELSE LET line == Head(lines)
             n    == Len(devices)
         IN  ParseDetectLoop(Tail(lines),
                 IF line.kind = "Device"
                 THEN Append(devices, [index |-> line.index, vid |-> line.vid,
                                       pid |-> line.pid, storages |-> <<>>])
                 ELSE IF n = 0 THEN devices
                 ELSE IF line.kind = "attr"
                 THEN [devices EXCEPT ![n] = SetKey(@, line.attr, line.value)]
                 ELSE IF line.kind = "Storage"
                 THEN [devices EXCEPT ![n].storages = Append(@, [id |-> line.id])]
                 ELSE IF line.kind = "storage_attr" /\ devices[n].storages # <<>>
                 THEN [devices EXCEPT ![n].storages[Len(devices[n].storages)] =
                                          SetKey(@, line.attr, line.value)]
                 ELSE devices)

\* vidpid is None or Some(<<vid, pid>>), the two halves of "vid:pid"
_parse_mtp_detect(raw, vidpid) ==
    LET devices == ParseDetectLoop(raw, <<>>)
    IN  [devices |-> IF vidpid # None
                     THEN SelectSeq(devices,
                              LAMBDA d : d.vid = vidpid[1][1] /\ d.pid = vidpid[1][2])
                     ELSE devices,
         _source |-> "mtp-detect"]

_parse_mtp_folders(raw) ==
    LET found == SelectSeq(raw, LAMBDA line : line.kind = "Folder")
    IN  [i \in 1..Len(found) |->
            [id |-> found[i].id, parent_id |-> found[i].parent_id,
             name |-> found[i].name]]

\* The loop of _parse_mtp_files; a "Modified date" line carries what
\* _parse_iso_or_ctime makes of its text, None for a text it cannot read.
RECURSIVE ParseFilesLoop(_, _)
ParseFilesLoop(lines, files) ==
    IF lines = <<>> THEN files
    ELSE LET line == Head(lines)
             n    == Len(files)
         IN  ParseFilesLoop(Tail(lines),
                 IF line.kind = "File"
                 THEN Append(files, [id |-> line.id, parent_id |-> line.parent_id])
                 ELSE IF n = 0 THEN files
                 ELSE IF line.kind = "Filename"
                 THEN [files EXCEPT ![n] = SetKey(@, "name", line.value)]
                 ELSE IF line.kind = "File size"
                 THEN [files EXCEPT ![n] = SetKey(@, "size_bytes", line.value)]
                 ELSE IF line.kind = "Modified date" /\ line.ts # None
                 THEN [files EXCEPT ![n] = SetKey(@, "mtime", line.ts[1])]
                 ELSE files)

_parse_mtp_files(raw) == ParseFilesLoop(raw, <<>>)

\* LibmtpRunner.detect: the record it returns
LibmtpRunner_detect(r, vidpid) ==
    IF r.returncode = 127 THEN [error |-> "mtp-detect not found"]
    ELSE _parse_mtp_detect(Lines(r.stdout) \o Lines(r.stderr), vidpid)

LibmtpRunner_folders(r) ==
    IF r.returncode = 127 THEN <<>>
    ELSE _parse_mtp_folders(Lines(r.stdout) \o Lines(r.stderr))

LibmtpRunner_files(r) ==
    IF r.returncode = 127 THEN <<>>
    ELSE _parse_mtp_files(Lines(r.stdout) \o Lines(r.stderr))

\* json.loads raises JSONDecodeError on a text that is no JSON document
JSONDecodeError(text) == "json" \notin DOMAIN text

SwiftMTPRunner_probe(r) ==
    IF r.returncode = 127 THEN [error |-> "swift not found"]
    ELSE IF JSONDecodeError(r.stdout) THEN [error |-> "JSON parse error", raw |-> r.stdout]
    ELSE r.stdout.json

\* The listing is tagged with its Python type, as swiftmtp_ls is.
SwiftMTPRunner_ls(r) ==
    IF r.returncode = 127 THEN [type |-> "list", value |-> <<>>]
    ELSE IF JSONDecodeError(r.stdout)
    THEN [type |-> "dict", value |-> [error |-> "JSON parse error", raw |-> r.stdout]]
    ELSE r.stdout.json

----------------------------------------------------------------------------
(* Overlay loading, summary and exit code *)

\* _load_expectations: file is the overlay file of the device, None when
\* there is none, Some(document) otherwise
_load_expectations(vidpid, file) ==
    IF vidpid = None THEN EmptyDict
    ELSE IF file = None THEN EmptyDict
    ELSE file[1]

\* int(x) on a YAML number, held in tenths: truncation towards zero
PyInt(x) ==
    IF x.tenths >= 0 THEN x.tenths \div 10 ELSE -((-x.tenths) \div 10)

\* SelectTolerance that leaves the overlay out
SelectToleranceCommandLine(a, exp) == a.ts_tolerance

\* main: ts_tol from --ts-tolerance, overridden by the overlay
SelectTolerance(a, exp) ==
    LET overlay_tol == GetOpt(Get(exp, "tolerances", EmptyDict), "timestamp_seconds")
    IN  IF overlay_tol # None THEN PyInt(overlay_tol[1]) ELSE a.ts_tolerance

\* _summary_counts that counts the five labels only
_summary_counts_five_only(ds) ==
    [lbl \in {_ALL_LABELS[n] : n \in 1..Len(_ALL_LABELS)} |->
        Cardinality({i \in 1..Len(ds) : ds[i].label = lbl})]

_summary_counts(ds) ==
    [lbl \in {_ALL_LABELS[n] : n \in 1..Len(_ALL_LABELS)}
              \cup {ds[i].label : i \in 1..Len(ds)} |->
        Cardinality({i \in 1..Len(ds) : ds[i].label = lbl})]

\* ExitStatus that counts the unknown diffs only
ExitStatusUnknownOnly(counts) ==
    LET unresolved == Get(counts, LABEL_UNKNOWN, 0)
    IN  IF unresolved > 0 THEN 1 ELSE 0

\* main: return 1 if unresolved > 0 else 0
ExitStatus(counts) ==
    LET unresolved == Get(counts, LABEL_UNKNOWN, 0) + Get(counts, LABEL_BUG_SWIFTMTP, 0)
    IN  IF unresolved > 0 THEN 1 ELSE 0

\* DiffEntry.to_dict
to_dict(d) ==
    [key |-> d.key, libmtp |-> d.libmtp_val, swiftmtp |-> d.swiftmtp_val,
     label |-> d.label, reason |-> d.reason]

\* The documents _write_evidence writes (logs and diff.md apart)
_write_evidence(meta, libmtp_raw, swiftmtp_raw, ds) ==
    [meta     |-> meta,
     libmtp   |-> libmtp_raw,
     swiftmtp |-> swiftmtp_raw,
     diff     |-> [diffs   |-> [i \in 1..Len(ds) |-> to_dict(ds[i])],
                   summary |-> [total_diffs |-> Len(ds),
                                by_label    |-> _summary_counts(ds)]]]

----------------------------------------------------------------------------
(* Tests/coverage-report.py: SwiftCoverageParser.parse_llvm_cov_text *)

\* A line of the text is the record of what the parser's tests see in it:
\* kind "Source Files in", "Function" (match: the groups of the pattern,
\* None when it does not match), "path" (starts with / or ./), "numbered"
\* (the line pattern matches: line_num, and of the code part whether it is
\* blank, starts with // or holds swiftcoverage:ignore; indented when the
\* line starts with five spaces), or "other".

\* FileCoverage(path=file_path)
FileCoverage ==
    [functions |-> <<>>, covered_lines |-> <<>>, uncovered_lines |-> <<>>,
     ignored_lines |-> <<>>]

FunctionCoverage(name, line_start, line_end) ==
    [name |-> name, line_start |-> line_start, line_end |-> line_end,
     covered_lines |-> <<>>, uncovered_lines |-> <<>>]

\* The parser before it is called
ParserIdle ==
    [pc |-> "idle", lines |-> <<>>, i |-> 0, files |-> EmptyDict,
     current_file |-> None, current_function |-> None]

\* current_function.<field>.append(line_num); current_function is the
\* object at [file, index], None when no function was seen
AppendToFunction(files, current_function, field, line_num) ==
    IF current_function = None THEN files
    ELSE LET f == current_function[1].file
             k == current_function[1].index
         IN  [files EXCEPT ![f].functions[k][field] = Append(@, line_num)]

\* One pass through the body of the while loop, at lines[i]
ParseIteration(p) ==
    LET line == p.lines[p.i + 1]
    IN  IF line.kind = "Source Files in" THEN [p EXCEPT !.i = @ + 1]
        ELSE IF line.kind = "Function"
        THEN IF line.match # None /\ p.current_file # None
             THEN LET f == p.current_file[1]
                  IN  [p EXCEPT
                         !.files[f].functions =
                             Append(@, FunctionCoverage(line.match[1].name,
                                                        line.match[1].line_start,
                                                        line.match[1].line_end)),
                         !.current_function =
                             Some([file |-> f,
                                   index |-> Len(p.files[f].functions) + 1]),
                         !.i = @ + 1]
             ELSE [p EXCEPT !.i = @ + 1]
        ELSE IF line.kind = "path"
        THEN [p EXCEPT
                !.files = IF line.file_path \in DOMAIN @ THEN @
                          ELSE SetKey(@, line.file_path, FileCoverage),
                !.current_file = Some(line.file_path),
                !.i = @ + 1]
        ELSE IF line.kind = "numbered" /\ p.current_file # None
        THEN LET f == p.current_file[1]
             IN  IF line.blank \/ line.comment \/ line.ignore
                 THEN \* continue, with i as it is
                      IF ~line.blank /\ line.ignore
                      THEN [p EXCEPT !.files[f].ignored_lines = Append(@, line.line_num)]
                      ELSE p
                 ELSE IF line.indented
                 THEN [p EXCEPT
                         !.files = AppendToFunction(
                                       [@ EXCEPT ![f].uncovered_lines =
                                                     Append(@, line.line_num)],
                                       p.current_function, "uncovered_lines",
                                       line.line_num),
                         !.i = @ + 1]
                 ELSE [p EXCEPT
                         !.files = AppendToFunction(
                                       [@ EXCEPT ![f].covered_lines =
                                                     Append(@, line.line_num)],
                                       p.current_function, "covered_lines",
                                       line.line_num),
                         !.i = @ + 1]
        ELSE [p EXCEPT !.i = @ + 1]

----------------------------------------------------------------------------
(* Python floats: IEEE 754 binary64, round to nearest, ties to even *)

\* A float x >= 0 is [bits, scale]: bits is the binary numeral of its
\* significand, most significant bit first and without leading zeros (<<>>
\* for 0), and x = bits / 2^scale.
Precision == 53

RECURSIVE BitsOf(_)
BitsOf(n) == IF n = 0 THEN <<>> ELSE Append(BitsOf(n \div 2), n % 2)

RECURSIVE IntOf(_)
IntOf(bits) ==
    IF bits = <<>> THEN 0
    ELSE 2 * IntOf(SubSeq(bits, 1, Len(bits) - 1)) + bits[Len(bits)]

\* bits + 1
RECURSIVE Increment(_)
Increment(bits) ==
    IF bits = <<>> THEN <<1>>
    ELSE IF bits[Len(bits)] = 0 THEN [bits EXCEPT ![Len(bits)] = 1]
    ELSE Append(Increment(SubSeq(bits, 1, Len(bits) - 1)), 0)

\* The float nearest to bits / 2^scale (plus something below the last bit
\* when sticky)
RoundToFloat(bits, scale, sticky) ==
    IF Len(bits) <= Precision THEN [bits |-> bits, scale |-> scale]
    ELSE LET dropped == Len(bits) - Precision
             kept    == SubSeq(bits, 1, Precision)
             guard   == bits[Precision + 1]
             below   == sticky \/ \E k \in (Precision + 2)..Len(bits) : bits[k] = 1
             up      == guard = 1 /\ (below \/ kept[Precision] = 1)
             rounded == IF up THEN Increment(kept) ELSE kept
         IN  IF Len(rounded) > Precision
             THEN [bits |-> SubSeq(rounded, 1, Precision), scale |-> scale - dropped - 1]
             ELSE [bits |-> rounded, scale |-> scale - dropped]

\* The binary expansion of r / n after bits, up to one bit more than a
\* float holds
RECURSIVE DivideLoop(_, _, _, _)
DivideLoop(r, n, bits, scale) ==
    IF Len(bits) > Precision
    THEN RoundToFloat(bits, scale, r # 0)
    ELSE LET bit == IF 2 * r >= n THEN 1 ELSE 0
         IN  DivideLoop(2 * r - bit * n, n,
                        IF bits = <<>> /\ bit = 0 THEN <<>> ELSE Append(bits, bit),
                        scale + 1)

\* c / n on ints, n > 0: the float nearest to the quotient
TrueDivide(c, n) ==
    IF c = 0 THEN [bits |-> <<>>, scale |-> 0]
    ELSE DivideLoop(c % n, n, BitsOf(c \div n), 0)

\* bits * k + carry for a small k
RECURSIVE MulLoop(_, _, _)
MulLoop(bits, k, carry) ==
    IF bits = <<>> THEN BitsOf(carry)
    ELSE LET v == bits[Len(bits)] * k + carry
         IN  IF v % 2 = 1
             THEN Append(MulLoop(SubSeq(bits, 1, Len(bits) - 1), k, v \div 2), 1)
             ELSE Append(MulLoop(SubSeq(bits, 1, Len(bits) - 1), k, v \div 2), 0)

\* x * 100.0
Times100(x) == RoundToFloat(MulLoop(x.bits, 100, 0), x.scale, FALSE)

\* x >= t for a whole number t >= 0
FloatAtLeast(x, t) ==
    LET whole == IF Len(x.bits) > x.scale
                 THEN IntOf(SubSeq(x.bits, 1, Len(x.bits) - x.scale)) ELSE 0
    IN  whole >= t

----------------------------------------------------------------------------
(* scripts/coverage_gate.py *)

\* A path is a sequence of tokens, the marker "/Sources/" and the
\* separator "/" being tokens of their own.
IndexOf(s, t) ==
    IF \E k \in 1..Len(s) : s[k] = t
    THEN CHOOSE k \in 1..Len(s) : s[k] = t /\ \A j \in 1..(k - 1) : s[j] # t
    ELSE 0

source_module(path) ==
    LET marker == IndexOf(path, "/Sources/")
    IN  IF marker = 0 THEN None
        ELSE LET after == SubSeq(path, marker + 1, Len(path))
                 slash == IndexOf(after, "/")
             IN  IF slash = 0 THEN None ELSE Some(SubSeq(after, 1, slash - 1))

FileStat(path, module, covered, count) ==
    [path |-> path, module |-> module, covered |-> covered, count |-> count]

\* load_file_stats: files is payload["data"][0]["files"]; an item holds
\* filename and, from summary.lines, count and covered, each when present
RECURSIVE load_file_stats(_, _)
load_file_stats(files, modules) ==
    IF files = <<>> THEN <<>>
    ELSE LET item    == Head(files)
             path    == Get(item, "filename", <<>>)
             module  == source_module(path)
             count   == Get(item, "count", 0)
             covered == Get(item, "covered", 0)
             rest    == load_file_stats(Tail(files), modules)
         IN  IF module = None \/ module[1] \notin modules THEN rest
             ELSE IF count <= 0 THEN rest
             ELSE <<FileStat(path, module[1], covered, count)>> \o rest

\* The loop of render_report over stats
RECURSIVE ModuleTotals(_, _)
ModuleTotals(stats, totals) ==
    IF stats = <<>> THEN totals
    ELSE LET stat == Head(stats)
         IN  ModuleTotals(Tail(stats),
                 [totals EXCEPT ![stat.module].covered = @ + stat.covered,
                                ![stat.module].count = @ + stat.count])

RECURSIVE OverallTotals(_, _)
OverallTotals(stats, overall) ==
    IF stats = <<>> THEN overall
    ELSE OverallTotals(Tail(stats),
             [covered |-> overall.covered + Head(stats).covered,
              count |-> overall.count + Head(stats).count])

\* (covered / count * 100.0) if count else 0.0
Percent(covered, count) ==
    IF count # 0 THEN Times100(TrueDivide(covered, count))
    ELSE [bits |-> <<>>, scale |-> 0]

\* render_report: the payload (timestamp, report text and file list apart)
render_report(stats, modules, threshold) ==
    LET names   == {modules[k] : k \in 1..Len(modules)}
        totals  == ModuleTotals(stats, [m \in names |-> [covered |-> 0, count |-> 0]])
        overall == OverallTotals(stats, [covered |-> 0, count |-> 0])
        overall_percent == Percent(overall.covered, overall.count)
        passed  == FloatAtLeast(overall_percent, threshold)
    IN  [threshold |-> threshold,
         status    |-> IF passed THEN "pass" ELSE "fail",
         overall   |-> [covered |-> overall.covered, count |-> overall.count,
                        percent |-> overall_percent],
         modules   |-> [m \in names |->
                           [covered |-> totals[m].covered, count |-> totals[m].count,
                            percent |-> Percent(totals[m].covered, totals[m].count)]]]

\* The gate before it is called
GateIdle ==
    [pc |-> "idle", exists |-> FALSE, modules_arg |-> <<>>, threshold |-> 0,
     files |-> <<>>, payload |-> None, exit_code |-> None]

\* main: g holds the arguments and the coverage JSON; the result is g with
\* the payload and the exit code
coverage_gate_main(g) ==
    LET modules == SelectSeq(g.modules_arg, LAMBDA token : token # <<>>)
        stats   == load_file_stats(g.files, {modules[k] : k \in 1..Len(modules)})
        payload == render_report(stats, modules, g.threshold)
    IN  IF ~g.exists THEN [g EXCEPT !.pc = "returned", !.exit_code = Some(2)]
        ELSE IF modules = <<>> THEN [g EXCEPT !.pc = "returned", !.exit_code = Some(2)]
        ELSE IF stats = <<>> THEN [g EXCEPT !.pc = "returned", !.exit_code = Some(2)]
        ELSE [g EXCEPT !.pc = "returned", !.payload = Some(payload),
                       !.exit_code = Some(IF payload.status = "pass" THEN 0 ELSE 1)]

----------------------------------------------------------------------------
(* Bounds and input sets *)

MaxTol == 2

MaxEntries == 2

MaxPasses == 2

MaxFiles == 2

MaxStorages == 2

MaxFolderId == 2

\* A parent id that no folder of the list has
UnknownId == MaxFolderId + 7

SeqsUpTo(S, n) == UNION {[1..k -> S] : k \in 0..n}

PermutationsOf(s) ==
    {[i \in 1..Len(s) |-> s[p[i]]] : p \in Permutations(1..Len(s))}

\* keys in ascending order, as a sort leaves them
IsSorted(keys) == \A i \in 1..(Len(keys) - 1) : ~StrLess(keys[i + 1], keys[i])

NameA == <<"a">>

NameB == <<"b">>

\* a file name that ends in ".size_bytes"
NameASize == <<"a", ".", "size_bytes">>

\* "ab": it starts with "a" and is not "a" + "."
NameAB == <<"a", "b">>

FileKey(path) == <<"file", ".">> \o path

(* Overlays *)

ClsPatterns == {<<>>, FileKey(NameA), FileKey(NameASize)}

OverlayEntries ==
    {[key |-> k, reason |-> r] : k \in ClsPatterns, r \in {"r1", "r2"}}
    \cup {[key |-> k, label |-> LABEL_BUG_LIBMTP, reason |-> r] :
             k \in ClsPatterns, r \in {"r1", "r2"}}

Overlays ==
    {EmptyDict} \cup
    UNION {{[intentional_differences |-> a, quirk_needed |-> b, known_bugs |-> c] :
               a \in [1..l[1] -> OverlayEntries],
               b \in [1..l[2] -> OverlayEntries],
               c \in [1..l[3] -> OverlayEntries]} :
           l \in {m \in (0..MaxEntries) \X (0..MaxEntries) \X (0..MaxEntries) :
                     m[1] + m[2] + m[3] <= MaxEntries}}

SampleOverlay ==
    [intentional_differences |->
        <<[key |-> <<"device", ".", "friendly_name">>, reason |-> "redacted"]>>,
     known_bugs |->
        <<[key |-> <<"device", ".", "storages">>, label |-> LABEL_BUG_SWIFTMTP,
           reason |-> "r1"]>>]

\* Entries a hand-written overlay file may hold: a label outside the five,
\* no label, no reason.
OddEntries ==
    {[key |-> FileKey(NameA), label |-> "weird", reason |-> "r1"],
     [key |-> FileKey(NameA), reason |-> "r1"],
     [key |-> FileKey(NameA)],
     [key |-> FileKey(NameASize), label |-> LABEL_BUG_SWIFTMTP]}

\* Overlays of one section with one such entry
LabelOverlays ==
    {[s \in {Sections[n]} |-> <<e>>] : n \in 1..3, e \in OddEntries}

(* Diff lists handed to _classify_diffs *)

SampleFile == [path |-> NameA, size_bytes |-> 1]

FreshDiffs ==
    <<DiffEntry(<<"device", ".", "model">>, Some("M"), Some("N")),
      DiffEntry(FileKey(NameA), Some(SampleFile), None),
      DiffEntry(FileKey(NameASize), Some(1), Some(2)),
      DiffEntry(FileKey(NameAB), None, Some([path |-> NameAB, size_bytes |-> 1]))>>

\* The path a.txt
NameATxt == <<"a", ".", "txt">>

\* Diffs about the file a and about the file a.txt
DottedDiffs ==
    <<DiffEntry(FileKey(NameA) \o <<".", "size_bytes">>, Some(1), Some(2)),
      DiffEntry(FileKey(NameATxt), None, Some([path |-> NameATxt, size_bytes |-> 1]))>>

StaleDiffs ==
    [i \in 1..Len(FreshDiffs) |->
        [FreshDiffs[i] EXCEPT !.label = LABEL_BUG_SWIFTMTP, !.reason = "old"]]

ClsDiffLists == {FreshDiffs, StaleDiffs, DottedDiffs}

(* Canonical records handed to the diff engine *)

Mtimes == 0..(MaxTol + 1)

TolFileRecs ==
    {[path |-> NameA, size_bytes |-> sz] : sz \in {1, 2}}
    \cup {[path |-> NameA, size_bytes |-> sz, mtime |-> t] : sz \in {1, 2}, t \in Mtimes}

PresenceFileRecs ==
    {[path |-> p, size_bytes |-> sz] : p \in {NameA, NameASize, NameB}, sz \in {1, 2}}

CanonFileLists ==
    {fs \in SeqsUpTo(PresenceFileRecs, MaxFiles) : IsSorted(Paths(fs))}

CanonStorages ==
    {[description |-> d, capacity_bytes |-> c] : d \in {NameA, NameB}, c \in {1, 2}}

CanonDevices ==
    {[manufacturer |-> m, model |-> "M", firmware |-> "1", friendly_name |-> "",
      storages |-> st] :
        m \in {"", "Acme"},
        st \in {x \in SeqsUpTo(CanonStorages, MaxStorages) :
                   IsSorted(Descriptions(x))}}

ZeroDevice ==
    [manufacturer |-> "", model |-> "", firmware |-> "", friendly_name |-> "",
     storages |-> <<>>]

(* Raw records handed to normalisation *)

RawLibStorages ==
    {[id |-> 1, description |-> d, capacity_bytes |-> c, free_bytes |-> 5] :
        d \in {NameA, NameB}, c \in {1, 2}}

RawLibDetects ==
    {[error |-> "mtp-detect not found"], [devices |-> <<>>]}
    \cup {[devices |-> <<[index |-> 0, manufacturer |-> m, model |-> "M",
                          serial |-> "S1", firmware |-> "1",
                          friendly_name |-> "phone", storages |-> st]>>] :
             m \in {"", "Acme"}, st \in SeqsUpTo(RawLibStorages, MaxStorages)}

SwiftDeviceA ==
    [manufacturer |-> "Acme", model |-> "M", serial |-> "REDACTED",
     firmwareVersion |-> "1", friendlyName |-> "phone",
     storages |-> <<[description |-> NameA, capacityBytes |-> 1, freeBytes |-> 7],
                    [name |-> NameB, capacity_bytes |-> 2, free_bytes |-> 7]>>]

SwiftDeviceB ==
    [manufacturer |-> "Acme", model |-> "M", serial |-> "S2", firmware |-> "1",
     friendly_name |-> "other",
     storages |-> <<[description |-> NameA, capacityBytes |-> 2, free_bytes |-> 7],
                    [description |-> NameA, capacityBytes |-> 1, free_bytes |-> 7]>>]

RawSwiftProbes ==
    {[error |-> "swift not found"], SwiftDeviceA, SwiftDeviceB,
     [device |-> SwiftDeviceA], [device |-> SwiftDeviceB]}

FolderName(id) == IF id = 1 THEN NameA ELSE IF id = 2 THEN NameB ELSE NameAB

FolderRecs ==
    {[id |-> i, parent_id |-> p, name |-> FolderName(i)] :
        i \in 1..MaxFolderId, p \in (0..MaxFolderId) \cup {UnknownId}}

\* folder lists in any order, each id at most once
FolderLists ==
    {fl \in SeqsUpTo(FolderRecs, MaxFolderId) :
        \A i, j \in 1..Len(fl) : i # j => fl[i].id # fl[j].id}

RawLibFiles ==
    {[id |-> 50, parent_id |-> p, name |-> NameA, size_bytes |-> sz] :
        p \in (0..MaxFolderId) \cup {UnknownId}, sz \in {1, 2}}

SampleFolders == <<[id |-> 1, parent_id |-> 0, name |-> NameA]>>

SwiftItems ==
    {[name |-> NameA, sizeBytes |-> 1],
     [name |-> NameA, size_bytes |-> 2, mtime |-> 0],
     [name |-> NameB, sizeBytes |-> 1, modificationDate |-> 1],
     [name |-> NameA, type |-> "folder",
      children |-> <<[name |-> NameA, sizeBytes |-> 1],
                     [name |-> NameA, sizeBytes |-> 2]>>]}

SwiftListings ==
    {[type |-> "list", value |-> v] : v \in SeqsUpTo(SwiftItems, MaxFiles)}
    \cup {[type |-> "dict", value |-> [items |-> v]] : v \in SeqsUpTo(SwiftItems, 1)}
    \cup {[type |-> "dict", value |-> [error |-> "JSON parse error"]]}

EmptyListing == [type |-> "list", value |-> <<>>]

(* What the tools print, and what the operating system does with them *)

OtherLine == [kind |-> "other"]

Exited(returncode, stdout, stderr) ==
    [kind |-> "exit", returncode |-> returncode, stdout |-> stdout,
     stderr |-> stderr]

NotFound == [kind |-> "FileNotFoundError"]

TimedOut(output) == [kind |-> "TimeoutExpired", output |-> output]

SampleVidPid == <<"18d1", "4ee1">>

\* One device with one storage
DetectTextA ==
    [lines |->
        <<[kind |-> "Device", index |-> 0, vid |-> "18d1", pid |-> "4ee1"],
          [kind |-> "attr", attr |-> "manufacturer", value |-> "Acme"],
          [kind |-> "attr", attr |-> "model", value |-> "M"],
          [kind |-> "attr", attr |-> "serial", value |-> "S1"],
          [kind |-> "attr", attr |-> "firmware", value |-> "1"],
          OtherLine,
          [kind |-> "Storage", id |-> 1],
          [kind |-> "storage_attr", attr |-> "description", value |-> NameA],
          [kind |-> "storage_attr", attr |-> "capacity_bytes", value |-> 1],
          [kind |-> "storage_attr", attr |-> "free_bytes", value |-> 5]>>]

\* An attribute line before any device, then a device of another vendor
DetectTextB ==
    [lines |->
        <<[kind |-> "attr", attr |-> "model", value |-> "N"],
          [kind |-> "storage_attr", attr |-> "description", value |-> NameB],
          [kind |-> "Device", index |-> 0, vid |-> "04e8", pid |-> "6860"],
          [kind |-> "storage_attr", attr |-> "description", value |-> NameB],
          [kind |-> "attr", attr |-> "friendly_name", value |-> "phone"]>>]

DetectRuns ==
    {Exited(0, DetectTextA, NoText), Exited(0, DetectTextB, NoText),
     Exited(1, NoText, [lines |-> <<OtherLine>>]),
     NotFound, TimedOut(DetectTextA)}

FoldersRuns ==
    {Exited(0, [lines |-> <<OtherLine,
                            [kind |-> "Folder", id |-> 1, parent_id |-> 0,
                             name |-> NameA]>>], NoText),
     NotFound, TimedOut(NoText)}

FilesTextA ==
    [lines |-> <<[kind |-> "File", id |-> 50, parent_id |-> 1],
                 [kind |-> "Filename", value |-> NameA],
                 [kind |-> "File size", value |-> 1],
                 [kind |-> "Modified date", ts |-> Some(1)]>>]

\* A file size before any file, and a date that cannot be read
FilesTextB ==
    [lines |-> <<[kind |-> "File size", value |-> 2],
                 [kind |-> "File", id |-> 51, parent_id |-> 0],
                 [kind |-> "Filename", value |-> NameB],
                 [kind |-> "Modified date", ts |-> None],
                 [kind |-> "File size", value |-> 2]>>]

FilesRuns ==
    {Exited(0, FilesTextA, NoText), Exited(0, FilesTextB, NoText),
     NotFound, TimedOut(FilesTextB)}

\* Text that is no JSON document, such as a build failure
NotJSON == [lines |-> <<OtherLine>>]

ProbeRuns ==
    {Exited(0, [json |-> SwiftDeviceA], NoText),
     Exited(0, [json |-> [device |-> SwiftDeviceB]], NotJSON),
     Exited(1, NotJSON, NotJSON),
     NotFound, TimedOut([json |-> SwiftDeviceA])}

LsRuns ==
    {Exited(0, [json |-> [type |-> "list",
                          value |-> <<[name |-> NameA, type |-> "folder",
                                       children |-> <<[name |-> NameA, sizeBytes |-> 1,
                                                       modificationDate |-> 1]>>]>>]],
             NoText),
     Exited(0, [json |-> [type |-> "dict",
                          value |-> [items |-> <<[name |-> NameB, size_bytes |-> 2]>>]]],
             NoText),
     Exited(1, NotJSON, NotJSON),
     NotFound, TimedOut(NoText)}

RunArgs ==
    {[vidpid |-> None, ts_tolerance |-> 0],
     [vidpid |-> Some(SampleVidPid), ts_tolerance |-> -1],
     [vidpid |-> Some(SampleVidPid), ts_tolerance |-> 1]}

\* An overlay whose patterns cover every diff key
CoverAllOverlay ==
    [intentional_differences |->
        <<[key |-> <<"device", ".", "friendly_name">>, reason |-> "redacted"]>>,
     quirk_needed |-> <<[key |-> <<"device">>, reason |-> "r1"]>>,
     known_bugs |->
        <<[key |-> <<"file">>, label |-> LABEL_BUG_LIBMTP, reason |-> "r2"]>>]

\* timestamp_seconds: -1
NegativeTolOverlay ==
    [tolerances |-> [timestamp_seconds |-> [tenths |-> -10]]]

\* timestamp_seconds: 1.5, and every file diff under a label of its own
FractionTolOverlay ==
    [tolerances |-> [timestamp_seconds |-> [tenths |-> 15]],
     known_bugs |-> <<[key |-> <<"file">>, label |-> "weird", reason |-> "r1"]>>]

\* The overlay file of the device: None when there is none
OverlayFiles ==
    {None, Some(SampleOverlay), Some(CoverAllOverlay), Some(NegativeTolOverlay),
     Some(FractionTolOverlay)}

----------------------------------------------------------------------------
(* The run: main() from normalisation on *)

NoRawInputs ==
    /\ libmtp_detect = EmptyDict
    /\ swiftmtp_probe = EmptyDict
    /\ libmtp_files = <<>>
    /\ libmtp_folders = <<>>
    /\ swiftmtp_ls = EmptyListing

NothingNormalised ==
    /\ norm_lib = EmptyDict
    /\ norm_swift = EmptyDict
    /\ lib_files = <<>>
    /\ swift_files = <<>>

\* Raw records that differ in the device part.
InitRawDevices ==
    /\ libmtp_detect \in RawLibDetects
    /\ swiftmtp_probe \in RawSwiftProbes
    /\ libmtp_files = <<>>
    /\ libmtp_folders = <<>>
    /\ swiftmtp_ls = EmptyListing
    /\ expectations \in {EmptyDict, SampleOverlay}

\* Raw records that differ in the folder graph.
InitRawFolders ==
    /\ libmtp_detect = EmptyDict
    /\ swiftmtp_probe = EmptyDict
    /\ libmtp_folders \in FolderLists
    /\ libmtp_files \in [1..1 -> RawLibFiles]
    /\ swiftmtp_ls = EmptyListing
    /\ expectations = EmptyDict

\* Raw records that differ in the file lists.
InitRawFiles ==
    /\ libmtp_detect = EmptyDict
    /\ swiftmtp_probe = EmptyDict
    /\ libmtp_folders \in {<<>>, SampleFolders}
    /\ \/ /\ libmtp_files \in SeqsUpTo(RawLibFiles, MaxFiles)
          /\ swiftmtp_ls = [type |-> "list", value |-> <<[name |-> NameA, sizeBytes |-> 1]>>]
       \/ /\ libmtp_files = <<[id |-> 50, parent_id |-> 0, name |-> NameA, size_bytes |-> 1]>>
          /\ swiftmtp_ls \in SwiftListings
    /\ expectations = EmptyDict

\* SwiftMTP records that hold both aliases of a field, one, or neither
AliasProbes ==
    {[manufacturer |-> "Acme", firmwareVersion |-> "2", firmware |-> "1",
      friendlyName |-> "phone", friendly_name |-> "other",
      storages |-> <<[description |-> NameB, name |-> NameA,
                      capacityBytes |-> 1, capacity_bytes |-> 2],
                     [name |-> NameA, capacity_bytes |-> 2],
                     EmptyDict>>],
     [device |-> [firmware |-> "1", friendly_name |-> "other"]],
     [manufacturer |-> "Acme"]}

AliasItems ==
    {[path |-> NameAB, name |-> NameA, sizeBytes |-> 1, size_bytes |-> 2],
     [path |-> NameAB, size_bytes |-> 2],
     [name |-> NameB],
     EmptyDict}

AliasListings ==
    {[type |-> "list", value |-> v] : v \in SeqsUpTo(AliasItems, MaxFiles)}

\* Raw SwiftMTP records that differ in the field names they use.
InitRawAliases ==
    /\ libmtp_detect = EmptyDict
    /\ swiftmtp_probe \in AliasProbes
    /\ libmtp_folders = <<>>
    /\ libmtp_files = <<>>
    /\ swiftmtp_ls \in AliasListings
    /\ expectations = EmptyDict

\* A run taken up after collection and overlay loading, with the
\* tolerance as the command line gave it.
MidRun ==
    /\ args = [vidpid |-> None, ts_tolerance |-> ts_tol]
    /\ completed = EmptyDict
    /\ evidence = None
    /\ exit_code = None
    /\ parser = ParserIdle
    /\ gate = GateIdle

Init ==
    /\ pc = "normalising"
    /\ InitRawDevices \/ InitRawFolders \/ InitRawFiles \/ InitRawAliases
    /\ NothingNormalised
    /\ ts_tol = 0
    /\ diffs = <<>>
    /\ passes = <<>>
    /\ MidRun

\* main: _normalise_device and _normalise_files
Normalise ==
    /\ pc = "normalising"
    /\ LET dev   == _normalise_device(libmtp_detect, swiftmtp_probe)
           files == _normalise_files(libmtp_files, libmtp_folders, swiftmtp_ls)
       IN  /\ norm_lib' = dev[1]
           /\ norm_swift' = dev[2]
           /\ lib_files' = files[1]
           /\ swift_files' = files[2]
    /\ pc' = "diffing"
    /\ UNCHANGED <<libmtp_detect, swiftmtp_probe, libmtp_files, libmtp_folders,
                   swiftmtp_ls, ts_tol, expectations, diffs, passes,
                   args, completed, evidence, exit_code, parser, gate>>

\* Diff that appends the file diffs before the device diffs
DiffFilesFirst ==
    /\ pc = "diffing"
    /\ diffs' = _diff_files(lib_files, swift_files, ts_tol)
                \o _diff_device(norm_lib, norm_swift)
    /\ pc' = "classifying"
    /\ UNCHANGED <<libmtp_detect, swiftmtp_probe, libmtp_files, libmtp_folders,
                   swiftmtp_ls, norm_lib, norm_swift, lib_files, swift_files,
                   ts_tol, expectations, passes,
                   args, completed, evidence, exit_code, parser, gate>>

\* main: diffs += _diff_device(...); diffs += _diff_files(...)
Diff ==
    /\ pc = "diffing"
    /\ diffs' = _diff_device(norm_lib, norm_swift)
                \o _diff_files(lib_files, swift_files, ts_tol)
    /\ pc' = "classifying"
    /\ UNCHANGED <<libmtp_detect, swiftmtp_probe, libmtp_files, libmtp_folders,
                   swiftmtp_ls, norm_lib, norm_swift, lib_files, swift_files,
                   ts_tol, expectations, passes,
                   args, completed, evidence, exit_code, parser, gate>>

\* main: diffs = _classify_diffs(diffs, expectations)
Classify ==
    /\ pc = "classifying"
    /\ diffs' = _classify_diffs(diffs, expectations)
    /\ passes' = Append(passes, diffs')
    /\ pc' = "reporting"
    /\ UNCHANGED <<libmtp_detect, swiftmtp_probe, libmtp_files, libmtp_folders,
                   swiftmtp_ls, norm_lib, norm_swift, lib_files, swift_files,
                   ts_tol, expectations,
                   args, completed, evidence, exit_code, parser, gate>>

\* _classify_diffs applied again to its own result, with the same overlay
Reclassify ==
    /\ pc = "reporting"
    /\ Len(passes) < MaxPasses
    /\ diffs' = _classify_diffs(diffs, expectations)
    /\ passes' = Append(passes, diffs')
    /\ UNCHANGED <<pc, libmtp_detect, swiftmtp_probe, libmtp_files, libmtp_folders,
                   swiftmtp_ls, norm_lib, norm_swift, lib_files, swift_files,
                   ts_tol, expectations,
                   args, completed, evidence, exit_code, parser, gate>>

Next == Normalise \/ Diff \/ Classify

Spec == Init /\ [][Next]_vars

(* The whole run: main() from collection to its return *)

InitRun ==
    /\ pc = "collecting"
    /\ args \in RunArgs
    /\ completed = EmptyDict
    /\ NoRawInputs
    /\ NothingNormalised
    /\ ts_tol = 0
    /\ expectations = EmptyDict
    /\ diffs = <<>>
    /\ passes = <<>>
    /\ evidence = None
    /\ exit_code = None
    /\ parser = ParserIdle
    /\ gate = GateIdle

\* main: the five tool runs of the libmtp side and the SwiftMTP side
Collect ==
    /\ pc = "collecting"
    /\ \E d \in DetectRuns, fo \in FoldersRuns, fi \in FilesRuns,
          p \in ProbeRuns, l \in LsRuns :
          /\ completed' = [detect |-> _run(d), folders |-> _run(fo),
                           files |-> _run(fi), probe |-> _run(p), ls |-> _run(l)]
          /\ libmtp_detect' = LibmtpRunner_detect(_run(d), args.vidpid)
          /\ libmtp_folders' = LibmtpRunner_folders(_run(fo))
          /\ libmtp_files' = LibmtpRunner_files(_run(fi))
          /\ swiftmtp_probe' = SwiftMTPRunner_probe(_run(p))
          /\ swiftmtp_ls' = SwiftMTPRunner_ls(_run(l))
    /\ pc' = "loading"
    /\ UNCHANGED <<args, norm_lib, norm_swift, lib_files, swift_files, ts_tol,
                   expectations, diffs, passes, evidence, exit_code, parser, gate>>

\* main: _load_expectations and the choice of ts_tol
LoadExpectations ==
    /\ pc = "loading"
    /\ \E file \in OverlayFiles :
          LET exp == _load_expectations(args.vidpid, file)
          IN  /\ expectations' = exp
              /\ ts_tol' = SelectTolerance(args, exp)
    /\ pc' = "normalising"
    /\ UNCHANGED <<args, completed, libmtp_detect, swiftmtp_probe, libmtp_files,
                   libmtp_folders, swiftmtp_ls, norm_lib, norm_swift, lib_files,
                   swift_files, diffs, passes, evidence, exit_code, parser, gate>>

\* main: _write_evidence, the summary and the return value
Report ==
    /\ pc = "reporting"
    /\ evidence' = Some(_write_evidence(
                        [vidpid |-> args.vidpid, ts_tolerance_seconds |-> ts_tol],
                        [detect |-> libmtp_detect, folders |-> libmtp_folders,
                         files |-> libmtp_files, normalized_device |-> norm_lib,
                         normalized_files |-> lib_files],
                        [probe |-> swiftmtp_probe, ls |-> swiftmtp_ls,
                         normalized_device |-> norm_swift,
                         normalized_files |-> swift_files],
                        diffs))
    /\ exit_code' = Some(ExitStatus(_summary_counts(diffs)))
    /\ pc' = "done"
    /\ UNCHANGED <<args, completed, libmtp_detect, swiftmtp_probe, libmtp_files,
                   libmtp_folders, swiftmtp_ls, norm_lib, norm_swift, lib_files,
                   swift_files, ts_tol, expectations, diffs, passes,
                   parser, gate>>

NextRun == Collect \/ LoadExpectations \/ Normalise \/ Diff \/ Classify \/ Report

SpecRun == InitRun /\ [][NextRun]_vars

\* The run of a command line without --vidpid
InitRunDefault == InitRun /\ args.vidpid = None

\* main runs to its return: no step waits on anything
FairRun == InitRunDefault /\ [][NextRun]_vars /\ WF_vars(NextRun)

(* The coverage parser and the coverage gate, each run on its own *)

MaxLines == 3

MaxGateFiles == 2

\* The compatibility harness is not running
HarnessIdle ==
    /\ pc = "idle"
    /\ args = [vidpid |-> None, ts_tolerance |-> 0]
    /\ completed = EmptyDict
    /\ NoRawInputs
    /\ NothingNormalised
    /\ ts_tol = 0
    /\ expectations = EmptyDict
    /\ diffs = <<>>
    /\ passes = <<>>
    /\ evidence = None
    /\ exit_code = None

HarnessUnchanged ==
    UNCHANGED <<pc, args, completed, libmtp_detect, swiftmtp_probe, libmtp_files,
                libmtp_folders, swiftmtp_ls, norm_lib, norm_swift, lib_files,
                swift_files, ts_tol, expectations, diffs, passes, evidence,
                exit_code>>

NumberedLine(line_num, blank, comment, ignore, indented) ==
    [kind |-> "numbered", line_num |-> line_num, blank |-> blank,
     comment |-> comment, ignore |-> ignore, indented |-> indented]

\* Lines of an llvm-cov text
CoverageLines ==
    {[kind |-> "Source Files in"],
     [kind |-> "Function",
      match |-> Some([name |-> "f", line_start |-> 1, line_end |-> 2])],
     [kind |-> "path", file_path |-> "/a.swift"],
     [kind |-> "path", file_path |-> "./b.swift"],
     NumberedLine(1, FALSE, FALSE, FALSE, FALSE),
     NumberedLine(2, FALSE, FALSE, FALSE, TRUE),
     NumberedLine(3, TRUE, FALSE, FALSE, FALSE),
     NumberedLine(4, FALSE, TRUE, FALSE, FALSE),
     NumberedLine(5, FALSE, FALSE, TRUE, FALSE),
     [kind |-> "other"]}

\* output.split('\n') has at least one line
CoverageTexts == UNION {[1..k -> CoverageLines] : k \in 1..MaxLines}

InitParse ==
    /\ HarnessIdle
    /\ gate = GateIdle
    /\ parser \in {[ParserIdle EXCEPT !.pc = "parsing", !.lines = text] :
                      text \in CoverageTexts}

\* while i < len(lines): one pass through the body.  The lists of a file
\* are followed up to MaxLines + 1 entries, more than a text of MaxLines
\* lines gives when each line is read once.
ParseStep ==
    /\ parser.pc = "parsing"
    /\ parser.i < Len(parser.lines)
    /\ \A f \in DOMAIN parser.files : Len(parser.files[f].ignored_lines) <= MaxLines
    /\ parser' = ParseIteration(parser)
    /\ UNCHANGED gate
    /\ HarnessUnchanged

\* return files
ParseReturn ==
    /\ parser.pc = "parsing"
    /\ parser.i >= Len(parser.lines)
    /\ parser' = [parser EXCEPT !.pc = "returned"]
    /\ UNCHANGED gate
    /\ HarnessUnchanged

NextParse == ParseStep \/ ParseReturn

SpecParse == InitParse /\ [][NextParse]_vars

\* The loop runs on as long as it can
FairParse == InitParse /\ [][NextParse]_vars /\ WF_vars(NextParse)

\* A file of module m
SourcePath(m) == <<"/", "pkg", "/Sources/", m, "/", "x.swift">>

\* Entries of data[0].files of a SwiftPM codecov JSON
GateItems ==
    {[filename |-> SourcePath("A"), count |-> 50, covered |-> 29],
     [filename |-> SourcePath("A"), count |-> 50, covered |-> 50],
     [filename |-> SourcePath("B"), count |-> 50, covered |-> 16],
     [filename |-> SourcePath("C"), count |-> 50, covered |-> 0],
     [filename |-> SourcePath("A"), count |-> 0, covered |-> 0],
     [filename |-> SourcePath("B")],
     [filename |-> <<"/", "pkg", "/Tests/", "A", "/", "x.swift">>,
      count |-> 50, covered |-> 0],
     [filename |-> <<"/", "pkg", "/Sources/", "x.swift">>, count |-> 50, covered |-> 0]}

\* --modules split at the commas and stripped: "", "A", "A,B", "A,,A"
ModuleArgs ==
    {<<<<>>>>, <<<<"A">>>>, <<<<"A">>, <<"B">>>>, <<<<"A">>, <<>>, <<"A">>>>}

Thresholds == {0, 58, 90}

InitGate ==
    /\ HarnessIdle
    /\ parser = ParserIdle
    /\ gate \in {[GateIdle EXCEPT !.pc = "called", !.exists = e, !.modules_arg = m,
                                  !.threshold = t, !.files = fs] :
                    e \in BOOLEAN, m \in ModuleArgs, t \in Thresholds,
                    fs \in SeqsUpTo(GateItems, MaxGateFiles)}

\* coverage_gate.main
GateMain ==
    /\ gate.pc = "called"
    /\ gate' = coverage_gate_main(gate)
    /\ UNCHANGED parser
    /\ HarnessUnchanged

NextGate == GateMain

SpecGate == InitGate /\ [][NextGate]_vars

(* The diff engine on canonical records *)

InitDiffTolerance ==
    /\ lib_files \in [1..1 -> TolFileRecs]
    /\ swift_files \in [1..1 -> TolFileRecs]
    /\ ts_tol \in 0..MaxTol
    /\ norm_lib = ZeroDevice
    /\ norm_swift = ZeroDevice

InitDiffPresence ==
    /\ lib_files \in CanonFileLists
    /\ swift_files \in CanonFileLists
    /\ ts_tol = 0
    /\ norm_lib = ZeroDevice
    /\ norm_swift = ZeroDevice

InitDiffDevices ==
    /\ norm_lib \in CanonDevices
    /\ norm_swift \in CanonDevices
    /\ lib_files = <<>>
    /\ swift_files = <<>>
    /\ ts_tol = 0

\* Canonical records that differ in the device and in two files at once
MixedDevices ==
    {ZeroDevice,
     [manufacturer |-> "Acme", model |-> "M", firmware |-> "1", friendly_name |-> "",
      storages |-> <<[description |-> NameA, capacity_bytes |-> 1]>>]}

MixedFileRecs(path) ==
    {[path |-> path, size_bytes |-> sz, mtime |-> t] : sz \in {1, 2}, t \in {0, 1}}

MixedFileLists ==
    {<<ra>> : ra \in MixedFileRecs(NameA)}
    \cup {<<ra, rb>> : ra \in MixedFileRecs(NameA), rb \in MixedFileRecs(NameB)}

InitDiffMixed ==
    /\ norm_lib \in MixedDevices
    /\ norm_swift \in MixedDevices
    /\ lib_files \in MixedFileLists
    /\ swift_files \in MixedFileLists
    /\ ts_tol = 0

InitDiff ==
    /\ pc = "diffing"
    /\ NoRawInputs
    /\ InitDiffTolerance \/ InitDiffPresence \/ InitDiffDevices \/ InitDiffMixed
    /\ expectations = EmptyDict
    /\ diffs = <<>>
    /\ passes = <<>>
    /\ MidRun

NextDiff == Diff \/ Classify

SpecDiff == InitDiff /\ [][NextDiff]_vars

(* _classify_diffs on diff lists and overlays *)

InitClassify ==
    /\ pc = "classifying"
    /\ NoRawInputs
    /\ NothingNormalised
    /\ ts_tol = 0
    /\ diffs \in ClsDiffLists
    /\ expectations \in Overlays \cup LabelOverlays
    /\ passes = <<>>
    /\ MidRun

NextClassify == Classify \/ Reclassify

SpecClassify == InitClassify /\ [][NextClassify]_vars

----------------------------------------------------------------------------
(* The overlay as declared, read without the maps the code builds *)

SectionEntries(exp, n) == Get(exp, Sections[n], <<>>)

\* The matching rule: a non-empty pattern equal to the key, or followed by
\* "." in the key.
PatternCovers(key, p) ==
    /\ p # <<>>
    /\ \/ key = p
       \/ /\ Len(key) > Len(p)
          /\ \A k \in 1..Len(p) : key[k] = p[k]
          /\ key[Len(p) + 1] = "."

EntryCovers(entry, key) ==
    "key" \in DOMAIN entry /\ PatternCovers(key, entry.key)

\* The label an entry of section n declares: its own, else the section's.
DeclaredLabel(entry, n) ==
    IF "label" \in DOMAIN entry THEN entry.label
    ELSE IF n = 1 THEN "intentional"
    ELSE IF n = 2 THEN "quirk_needed"
    ELSE "unknown"

DeclaredReason(entry) == IF "reason" \in DOMAIN entry THEN entry.reason ELSE ""

\* The sections with an entry that covers the key
CoveringSections(exp, key) ==
    {n \in 1..3 : \E j \in 1..Len(SectionEntries(exp, n)) :
                      EntryCovers(SectionEntries(exp, n)[j], key)}

TopSection(exp, key) ==
    CHOOSE n \in CoveringSections(exp, key) :
        \A m \in CoveringSections(exp, key) : n <= m

FirstCovering(entries, key) ==
    CHOOSE j \in 1..Len(entries) :
        /\ EntryCovers(entries[j], key)
        /\ \A k \in 1..(j - 1) : ~EntryCovers(entries[k], key)

Classified == Len(passes) >= 1

----------------------------------------------------------------------------
(* C1: when entries of more than one section cover a diff key, the diff    *)
(* carries the label and reason of a covering entry of the section that    *)
(* comes first in intentional_differences > quirk_needed > known_bugs.     *)
ClaimSectionPrecedence ==
    Classified =>
        \A i \in 1..Len(passes[1]) :
            LET d    == passes[1][i]
                secs == CoveringSections(expectations, d.key)
            IN  Cardinality(secs) >= 2 =>
                    LET top     == TopSection(expectations, d.key)
                        entries == SectionEntries(expectations, top)
                    IN  \E j \in 1..Len(entries) :
                            /\ EntryCovers(entries[j], d.key)
                            /\ d.label = DeclaredLabel(entries[j], top)
                            /\ d.reason = DeclaredReason(entries[j])

(* C2: when only one section covers a diff key and several of its entries  *)
(* do, the diff carries the label and reason of the one declared first.    *)
ClaimFirstMatchWins ==
    Classified =>
        \A i \in 1..Len(passes[1]) :
            LET d    == passes[1][i]
                secs == CoveringSections(expectations, d.key)
            IN  Cardinality(secs) = 1 =>
                    LET top     == TopSection(expectations, d.key)
                        entries == SectionEntries(expectations, top)
                        first   == entries[FirstCovering(entries, d.key)]
                    IN  /\ d.label = DeclaredLabel(first, top)
                        /\ d.reason = DeclaredReason(first)

(* C3: _classify_diffs gives a diff the label and reason of an overlay     *)
(* entry that covers its key if there is one, and leaves the label and     *)
(* reason alone if there is none; with an empty overlay nothing changes.   *)
ClaimMatchingRule ==
    [][pc = "classifying" =>
        /\ Len(diffs') = Len(diffs)
        /\ \A i \in 1..Len(diffs) :
            LET key  == diffs[i].key
                secs == CoveringSections(expectations, key)
            IN  /\ secs # {} =>
                      \E n \in secs : \E j \in 1..Len(SectionEntries(expectations, n)) :
                          LET e == SectionEntries(expectations, n)[j]
                          IN  /\ EntryCovers(e, key)
                              /\ diffs'[i].label = DeclaredLabel(e, n)
                              /\ diffs'[i].reason = DeclaredReason(e)
                /\ secs = {} =>
                      /\ diffs'[i].label = diffs[i].label
                      /\ diffs'[i].reason = diffs[i].reason
                /\ (secs = {} /\ diffs = FreshDiffs) =>
                      /\ diffs'[i].label = LABEL_UNKNOWN
                      /\ diffs'[i].reason = ""]_vars

\* One diff relabelled by the pattern file.a and, beside it, the diff of
\* file.ab left unknown.
WitnessMatchingRule ==
    /\ Classified
    /\ pc = "reporting"
    /\ \E n \in 1..3 : \E j \in 1..Len(SectionEntries(expectations, n)) :
           SectionEntries(expectations, n)[j].key = FileKey(NameA)
    /\ passes[1][2].key = FileKey(NameA)
    /\ passes[1][2].label # LABEL_UNKNOWN
    /\ passes[1][4].key = FileKey(NameAB)
    /\ passes[1][4].label = LABEL_UNKNOWN
    /\ passes[1][4].reason = ""

(* C7: a second application of _classify_diffs with the same overlay       *)
(* returns the list the first one returned.                                *)
ClaimIdempotent ==
    Len(passes) >= 2 => passes[2] = passes[1]

\* Two applications, the first of which relabelled a diff that came in
\* with another label.
WitnessIdempotent ==
    /\ Len(passes) = 2
    /\ passes[2][2].label = LABEL_INTENTIONAL
    /\ passes[2][1].label = LABEL_BUG_SWIFTMTP
    /\ passes[2][3].reason = "r2"

_ALL_LABELS_SET == {_ALL_LABELS[n] : n \in 1..Len(_ALL_LABELS)}

(* C11: after _classify_diffs the label of every diff entry is one of      *)
(* bug_swiftmtp, bug_libmtp, intentional, quirk_needed, unknown, whatever  *)
(* label strings the overlay entries carry.                                *)
ClaimClosedLabelSet ==
    Classified =>
        \A i \in 1..Len(passes[1]) : passes[1][i].label \in _ALL_LABELS_SET

\* The one entry that covers the key, when one entry of one section does
OnlyCovering(exp, key) ==
    LET n == TopSection(exp, key)
    IN  SectionEntries(exp, n)[FirstCovering(SectionEntries(exp, n), key)]

CoveredOnce(exp, key) ==
    /\ Cardinality(CoveringSections(exp, key)) = 1
    /\ LET entries == SectionEntries(exp, TopSection(exp, key))
       IN  Cardinality({j \in 1..Len(entries) : EntryCovers(entries[j], key)}) = 1

(* C12: a diff covered by a known_bugs entry without a label field (and    *)
(* by no other entry) is labelled unknown and has a non-empty reason, also *)
(* when the entry declares no reason.                                      *)
ClaimMissingLabelRecorded ==
    Classified =>
        \A i \in 1..Len(passes[1]) :
            LET d == passes[1][i]
            IN  ( /\ CoveredOnce(expectations, d.key)
                  /\ TopSection(expectations, d.key) = 3
                  /\ "label" \notin DOMAIN OnlyCovering(expectations, d.key) )
                => /\ d.label = LABEL_UNKNOWN
                   /\ d.reason # ""

(* C13: an application of _classify_diffs returns a list of the same       *)
(* length whose entries have, position by position, the key, libmtp_val    *)
(* and swiftmtp_val they had; only label and reason may change.            *)
ClaimClassificationFrame ==
    [][passes' # passes =>
        /\ Len(diffs') = Len(diffs)
        /\ \A i \in 1..Len(diffs) :
              /\ diffs'[i].key = diffs[i].key
              /\ diffs'[i].libmtp_val = diffs[i].libmtp_val
              /\ diffs'[i].swiftmtp_val = diffs[i].swiftmtp_val
              /\ DOMAIN diffs'[i] = DOMAIN diffs[i]]_vars

\* A classification that relabelled the second of four entries, gave it a
\* reason and left its values and its neighbours as they were.
WitnessClassificationFrame ==
    /\ Len(passes) = 1
    /\ Len(diffs) = 4
    /\ diffs[2].label = LABEL_QUIRK_NEEDED
    /\ diffs[2].reason = "r1"
    /\ diffs[2].libmtp_val = Some(SampleFile)
    /\ diffs[1].label = LABEL_UNKNOWN
    /\ diffs[4].swiftmtp_val # None

(* C20: a diff covered by one entry only, of intentional_differences, is   *)
(* labelled intentional with that entry's reason, and one covered by one   *)
(* entry only, of quirk_needed, is labelled quirk_needed, whatever label   *)
(* field the entry carries.                                                *)
ClaimImpliedSectionLabel ==
    Classified =>
        \A i \in 1..Len(passes[1]) :
            LET d == passes[1][i]
            IN  ( /\ CoveredOnce(expectations, d.key)
                  /\ TopSection(expectations, d.key) \in {1, 2} )
                => /\ d.label = (IF TopSection(expectations, d.key) = 1
                                 THEN LABEL_INTENTIONAL ELSE LABEL_QUIRK_NEEDED)
                   /\ d.reason = DeclaredReason(OnlyCovering(expectations, d.key))

----------------------------------------------------------------------------
(* Claims about the diff engine *)

Diffed == pc \in {"classifying", "reporting"}

PathsOf(files) == {files[i].path : i \in 1..Len(files)}

MtimeKey(path) == FileKey(path) \o <<".", "mtime">>

EntriesWithKey(ds, key) == {i \in 1..Len(ds) : ds[i].key = key}

(* C4: for a file on both sides with an mtime on both sides (of several    *)
(* records of one path, the last), the diff list holds one entry           *)
(* file.<path>.mtime if the mtimes are more than ts_tol apart and none     *)
(* otherwise.                                                              *)
ClaimToleranceBoundary ==
    Diffed =>
        \A i \in 1..Len(lib_files), j \in 1..Len(swift_files) :
            LET a == lib_files[i]
                b == swift_files[j]
            IN  ( /\ a.path = b.path
                  /\ "mtime" \in DOMAIN a
                  /\ "mtime" \in DOMAIN b
                  /\ \A k \in (i + 1)..Len(lib_files) : lib_files[k].path # a.path
                  /\ \A k \in (j + 1)..Len(swift_files) : swift_files[k].path # a.path )
                =>
                LET n    == Cardinality(EntriesWithKey(diffs, MtimeKey(a.path)))
                    far  == a.mtime - b.mtime > ts_tol \/ b.mtime - a.mtime > ts_tol
                IN  /\ far => n = 1
                    /\ ~far => n = 0
                    /\ far => \E k \in EntriesWithKey(diffs, MtimeKey(a.path)) :
                                 /\ diffs[k].libmtp_val = Some(a.mtime)
                                 /\ diffs[k].swiftmtp_val = Some(b.mtime)

\* A positive tolerance, two mtimes exactly that far apart, and no mtime
\* entry.
WitnessToleranceBoundary ==
    /\ Diffed
    /\ ts_tol = MaxTol
    /\ ts_tol > 0
    /\ Len(lib_files) = 1
    /\ Len(swift_files) = 1
    /\ "mtime" \in DOMAIN lib_files[1]
    /\ "mtime" \in DOMAIN swift_files[1]
    /\ swift_files[1].mtime - lib_files[1].mtime = ts_tol
    /\ EntriesWithKey(diffs, MtimeKey(NameA)) = {}

\* An absence entry of `path`: the record on the side that has it, None on
\* the other.
IsAbsenceEntry(e, path, present, absent) ==
    /\ e.key = FileKey(path)
    /\ absent = None
    /\ present # None

(* C5: a path on one side only yields one entry file.<path> with that      *)
(* side's record and None on the other side; no entry has None on both.    *)
ClaimSymmetryOfAbsence ==
    Diffed =>
        /\ \A p \in PathsOf(lib_files) \ PathsOf(swift_files) :
              /\ Cardinality({i \in 1..Len(diffs) :
                     IsAbsenceEntry(diffs[i], p, diffs[i].libmtp_val,
                                    diffs[i].swiftmtp_val)}) = 1
              /\ \A i \in 1..Len(diffs) :
                     (diffs[i].key = FileKey(p) /\ diffs[i].swiftmtp_val = None) =>
                         \E k \in 1..Len(lib_files) :
                             /\ lib_files[k].path = p
                             /\ diffs[i].libmtp_val = Some(lib_files[k])
        /\ \A p \in PathsOf(swift_files) \ PathsOf(lib_files) :
              /\ Cardinality({i \in 1..Len(diffs) :
                     IsAbsenceEntry(diffs[i], p, diffs[i].swiftmtp_val,
                                    diffs[i].libmtp_val)}) = 1
              /\ \A i \in 1..Len(diffs) :
                     (diffs[i].key = FileKey(p) /\ diffs[i].libmtp_val = None) =>
                         \E k \in 1..Len(swift_files) :
                             /\ swift_files[k].path = p
                             /\ diffs[i].swiftmtp_val = Some(swift_files[k])
        /\ \A i \in 1..Len(diffs) :
              ~(diffs[i].libmtp_val = None /\ diffs[i].swiftmtp_val = None)

\* One path on the libmtp side only and another on the SwiftMTP side only.
WitnessSymmetryOfAbsence ==
    /\ Diffed
    /\ PathsOf(lib_files) \ PathsOf(swift_files) # {}
    /\ PathsOf(swift_files) \ PathsOf(lib_files) # {}
    /\ Len(diffs) = 2

(* C19: a canonical device record compared with itself gives no device    *)
(* entry, and a canonical file list compared with itself under a           *)
(* tolerance >= 0 gives no file entry.                                     *)
ClaimIdenticalNoDiffs ==
    Diffed =>
        /\ norm_lib = norm_swift =>
              \A i \in 1..Len(diffs) : diffs[i].key[1] # "device"
        /\ (lib_files = swift_files /\ ts_tol >= 0) =>
              \A i \in 1..Len(diffs) : diffs[i].key[1] # "file"

\* The same file with an mtime on both sides under tolerance 0, and beside
\* it the same device: nothing reported.
WitnessIdenticalNoDiffs ==
    /\ Diffed
    /\ lib_files = swift_files
    /\ Len(lib_files) = 1
    /\ "mtime" \in DOMAIN lib_files[1]
    /\ ts_tol = 0
    /\ norm_lib = norm_swift
    /\ diffs = <<>>

----------------------------------------------------------------------------
(* Claims about normalisation followed by the diff engine *)

Normalised == pc # "normalising"

Excluded == {"serial", "free_bytes"}

StorageAttrs(storages) == UNION {DOMAIN storages[i] : i \in 1..Len(storages)}

\* The attribute names inside the two values of a diff entry
ValueAttrs(key, val) ==
    IF val = None THEN {}
    ELSE IF key = <<"device", ".", "storages">> THEN StorageAttrs(val[1])
    ELSE {}

RecordAttrs(e) ==
    IF e.key[1] = "file" /\ e.libmtp_val = None THEN DOMAIN e.swiftmtp_val[1]
    ELSE IF e.key[1] = "file" /\ e.swiftmtp_val = None THEN DOMAIN e.libmtp_val[1]
    ELSE {}

(* C6: neither canonical device record has a serial or free_bytes          *)
(* attribute, in the record or in a storage, and no diff entry names one   *)
(* in its key or carries one in a value.                                   *)
ClaimExclusion ==
    /\ Normalised =>
          /\ DOMAIN norm_lib \cap Excluded = {}
          /\ DOMAIN norm_swift \cap Excluded = {}
          /\ StorageAttrs(norm_lib.storages) \cap Excluded = {}
          /\ StorageAttrs(norm_swift.storages) \cap Excluded = {}
    /\ \A i \in 1..Len(diffs) :
          /\ \A k \in 1..Len(diffs[i].key) : diffs[i].key[k] \notin Excluded
          /\ ValueAttrs(diffs[i].key, diffs[i].libmtp_val) \cap Excluded = {}
          /\ ValueAttrs(diffs[i].key, diffs[i].swiftmtp_val) \cap Excluded = {}
          /\ RecordAttrs(diffs[i]) \cap Excluded = {}

\* Raw records that disagree on the serial number and on free space, and
\* a diff of the storages.
WitnessExclusion ==
    /\ Diffed
    /\ "devices" \in DOMAIN libmtp_detect
    /\ libmtp_detect.devices # <<>>
    /\ libmtp_detect.devices[1].serial = "S1"
    /\ libmtp_detect.devices[1].storages # <<>>
    /\ libmtp_detect.devices[1].storages[1].free_bytes = 5
    /\ swiftmtp_probe = SwiftDeviceB
    /\ \E i \in 1..Len(diffs) : diffs[i].key = <<"device", ".", "storages">>

\* main's normalisation and diff of raw records
PipelineDiffs(detect, probe, files, folders, ls, tol) ==
    LET dev == _normalise_device(detect, probe)
        fls == _normalise_files(files, folders, ls)
    IN  _diff_device(dev[1], dev[2]) \o _diff_files(fls[1], fls[2], tol)

\* The raw libmtp device record with its storages listed in another order
DetectsReordered(detect) ==
    IF "devices" \in DOMAIN detect /\ detect.devices # <<>>
    THEN {[detect EXCEPT !.devices[1].storages = st] :
             st \in PermutationsOf(detect.devices[1].storages)}
    ELSE {detect}

ListingsReordered(ls) ==
    IF ls.type = "list"
    THEN {[ls EXCEPT !.value = v] : v \in PermutationsOf(ls.value)}
    ELSE {ls}

(* C8: listing the storages, the folders or the files in another order     *)
(* gives the same sequence of diff entries.                                *)
ClaimOrderIndependent ==
    pc = "classifying" =>
        \A detect \in DetectsReordered(libmtp_detect),
           files \in PermutationsOf(libmtp_files),
           folders \in PermutationsOf(libmtp_folders),
           ls \in ListingsReordered(swiftmtp_ls) :
            PipelineDiffs(detect, swiftmtp_probe, files, folders, ls, ts_tol) = diffs

\* The path of folder `id`: the names from the root down, when the chain of
\* parents reaches the root 0 within `fuel` steps; None otherwise.
RECURSIVE ChainPath(_, _, _)
ChainPath(id, folders, fuel) ==
    IF id = 0 THEN Some(<<>>)
    ELSE IF fuel = 0 \/ ~\E k \in 1..Len(folders) : folders[k].id = id THEN None
    ELSE LET f  == folders[CHOOSE k \in 1..Len(folders) : folders[k].id = id]
             up == ChainPath(f.parent_id, folders, fuel - 1)
         IN  IF up = None THEN None
             ELSE Some(IF up[1] = <<>> THEN f.name ELSE up[1] \o <<"/">> \o f.name)

(* C9: a file in a folder whose chain of parents reaches the root through  *)
(* listed folders gets the slash-joined names of the chain plus its own    *)
(* name as path, whatever the order of the folder ids.                     *)
ClaimTransitivePaths ==
    Normalised =>
        \A i \in 1..Len(libmtp_files) :
            LET f     == libmtp_files[i]
                chain == ChainPath(f.parent_id, libmtp_folders, Len(libmtp_folders))
            IN  chain # None =>
                    \E k \in 1..Len(lib_files) :
                        /\ lib_files[k].size_bytes = f.size_bytes
                        /\ lib_files[k].path =
                               (IF chain[1] = <<>> THEN f.name
                                ELSE chain[1] \o <<"/">> \o f.name)

KnownFolderIds == {libmtp_folders[k].id : k \in 1..Len(libmtp_folders)}

EndsWith(s, t) == Len(t) <= Len(s) /\ SubSeq(s, Len(s) - Len(t) + 1, Len(s)) = t

(* C10: the canonical libmtp file list has one entry per raw file entry,   *)
(* and a file whose parent_id is no known folder id has its bare name as   *)
(* path.                                                                   *)
ClaimNoFileDropped ==
    Normalised =>
        /\ Len(lib_files) = Len(libmtp_files)
        /\ \E p \in Permutations(1..Len(libmtp_files)) :
              \A i \in 1..Len(libmtp_files) :
                  LET f == libmtp_files[i]
                      e == lib_files[p[i]]
                  IN  /\ e.size_bytes = f.size_bytes
                      /\ EndsWith(e.path, f.name)
                      /\ f.parent_id \notin KnownFolderIds => e.path = f.name

\* Two raw files, one of them under a parent id that no folder has, and
\* the other in a listed folder.
WitnessNoFileDropped ==
    /\ Normalised
    /\ Len(libmtp_files) = 2
    /\ libmtp_folders # <<>>
    /\ libmtp_files[1].parent_id = UnknownId
    /\ libmtp_files[2].parent_id \in KnownFolderIds
    /\ Len(lib_files) = 2
    /\ lib_files[1].path = NameA
    /\ lib_files[2].path = <<"a", "/", "a">>

----------------------------------------------------------------------------
(* Claims about the whole run *)

Unresolved(ds) ==
    {i \in 1..Len(ds) : ds[i].label \in {LABEL_UNKNOWN, LABEL_BUG_SWIFTMTP}}

(* C14: main returns 0 if and only if no diff of the final list is         *)
(* labelled unknown or bug_swiftmtp, and 1 if and only if one is; it       *)
(* returns nothing else.                                                   *)
ClaimExitSemantics ==
    pc = "done" =>
        /\ exit_code \in {Some(0), Some(1)}
        /\ exit_code = Some(0) <=> Unresolved(diffs) = {}
        /\ exit_code = Some(1) <=> Unresolved(diffs) # {}

\* A finished run that returned 0 with diffs labelled intentional,
\* quirk_needed and bug_libmtp.
WitnessExitSemantics ==
    /\ pc = "done"
    /\ exit_code = Some(0)
    /\ \E i \in 1..Len(diffs) : diffs[i].label = LABEL_INTENTIONAL
    /\ \E i \in 1..Len(diffs) : diffs[i].label = LABEL_QUIRK_NEEDED
    /\ \E i \in 1..Len(diffs) : diffs[i].label = LABEL_BUG_LIBMTP

(* C15: the run gets past overlay loading only with a timestamp tolerance  *)
(* >= 0: normalisation and the diff never run with a negative ts_tol.      *)
ClaimNegativeToleranceRejected ==
    pc \notin {"collecting", "loading"} => ts_tol >= 0

StageRank(stage) ==
    CASE stage = "collecting"  -> 1
      [] stage = "loading"     -> 2
      [] stage = "normalising" -> 3
      [] stage = "diffing"     -> 4
      [] stage = "classifying" -> 5
      [] stage = "reporting"   -> 6
      [] stage = "done"        -> 7


\* The tool was not found, timed out, or (SwiftMTP) wrote no JSON document
ToolFailed(r) == r.returncode \in {127, 124}

SwiftToolFailed(r) == ToolFailed(r) \/ JSONDecodeError(r.stdout)

ZeroOnFailure ==
    StageRank(pc) >= 4 =>
        /\ ToolFailed(completed.detect) => norm_lib = ZeroDevice
        /\ ToolFailed(completed.files) => lib_files = <<>>
        /\ SwiftToolFailed(completed.probe) => norm_swift = ZeroDevice
        /\ SwiftToolFailed(completed.ls) => swift_files = <<>>

(* C16: every step of the run moves to the next stage of collecting,       *)
(* (overlay loading,) normalising, diffing, classifying, reporting, done;  *)
(* a tool that was not found, timed out or wrote no JSON leaves the zero   *)
(* device record or the empty file list on its side; and every run reaches *)
(* done with the evidence written.                                         *)
ClaimForwardOnlyRun ==
    /\ [][StageRank(pc') = StageRank(pc) + 1]_vars
    /\ []ZeroOnFailure
    /\ <>(pc = "done" /\ evidence # None /\ exit_code # None)

\* A finished run in which every libmtp tool was missing and the SwiftMTP
\* probe timed out while the listing came through.
WitnessForwardOnlyRun ==
    /\ pc = "done"
    /\ evidence # None
    /\ completed.detect.returncode = 127
    /\ completed.folders.returncode = 127
    /\ completed.files.returncode = 127
    /\ completed.probe.returncode = 124
    /\ completed.ls.returncode = 0
    /\ norm_lib = ZeroDevice
    /\ norm_swift = ZeroDevice
    /\ lib_files = <<>>
    /\ swift_files # <<>>

DeviceFields == {"manufacturer", "model", "firmware", "friendly_name", "storages"}

\* What a canonical device record holds for a field without data
ZeroValue(k) == IF k = "storages" THEN <<>> ELSE ""

\* The raw device record of a side is absent or unparseable
LibDeviceMissing == "devices" \notin DOMAIN libmtp_detect \/ libmtp_detect.devices = <<>>

SwiftDeviceMissing == "error" \in DOMAIN swiftmtp_probe

LibFilesMissing == libmtp_files = <<>>

SwiftFilesMissing ==
    \/ swiftmtp_ls.type = "dict" /\ "items" \notin DOMAIN swiftmtp_ls.value
    \/ swiftmtp_ls.type = "list" /\ swiftmtp_ls.value = <<>>

(* C17: when the raw record of one side is absent or unparseable, every    *)
(* field of the other side's canonical device that holds data has a diff   *)
(* entry device.<field> with that value against the missing side's empty   *)
(* value, and every file of the other side has an entry file.<path> with   *)
(* None on the missing side; the run goes on to done.                      *)
ClaimMissingDataSurfaces ==
    /\ StageRank(pc) >= 5 =>
        /\ LibDeviceMissing =>
              \A k \in DeviceFields : norm_swift[k] # ZeroValue(k) =>
                  \E i \in 1..Len(diffs) :
                      /\ diffs[i].key = <<"device", ".", k>>
                      /\ diffs[i].libmtp_val = Some(ZeroValue(k))
                      /\ diffs[i].swiftmtp_val = Some(norm_swift[k])
        /\ SwiftDeviceMissing =>
              \A k \in DeviceFields : norm_lib[k] # ZeroValue(k) =>
                  \E i \in 1..Len(diffs) :
                      /\ diffs[i].key = <<"device", ".", k>>
                      /\ diffs[i].libmtp_val = Some(norm_lib[k])
                      /\ diffs[i].swiftmtp_val = Some(ZeroValue(k))
        /\ LibFilesMissing =>
              \A j \in 1..Len(swift_files) :
                  \E i \in 1..Len(diffs) :
                      /\ diffs[i].key = FileKey(swift_files[j].path)
                      /\ diffs[i].libmtp_val = None
                      /\ diffs[i].swiftmtp_val # None
                      /\ diffs[i].swiftmtp_val[1].path = swift_files[j].path
        /\ SwiftFilesMissing =>
              \A j \in 1..Len(lib_files) :
                  \E i \in 1..Len(diffs) :
                      /\ diffs[i].key = FileKey(lib_files[j].path)
                      /\ diffs[i].swiftmtp_val = None
                      /\ diffs[i].libmtp_val # None
                      /\ diffs[i].libmtp_val[1].path = lib_files[j].path
    /\ (pc = "done" /\ (LibDeviceMissing \/ SwiftDeviceMissing
                          \/ LibFilesMissing \/ SwiftFilesMissing)) =>
           exit_code \in {Some(0), Some(1)}

\* A finished run whose SwiftMTP side gave nothing, with the four fields
\* and the file of the libmtp side reported against it.
WitnessMissingDataSurfaces ==
    /\ pc = "done"
    /\ SwiftDeviceMissing
    /\ SwiftFilesMissing
    /\ ~LibDeviceMissing
    /\ Len(lib_files) = 1
    /\ Len(diffs) = 5
    /\ diffs[1].swiftmtp_val = Some("")
    /\ diffs[5].swiftmtp_val = None

----------------------------------------------------------------------------
(* Claims on the file comparison, tolerance selection and summary *)

FileFields(rec) == DOMAIN rec \ {"path"}

(* C21: for a file present on both sides, every field that only one side's *)
(* record holds has a diff entry file.<path>.<field> with that side's      *)
(* value and None on the other side.                                       *)
ClaimUnionOfFields ==
    Diffed =>
        \A p \in PathsOf(lib_files) \cap PathsOf(swift_files) :
            LET a == PathMap(lib_files)[p]
                b == PathMap(swift_files)[p]
            IN  /\ \A f \in FileFields(a) \ FileFields(b) :
                       \E i \in 1..Len(diffs) :
                           /\ diffs[i].key = FileKey(p) \o <<".", f>>
                           /\ diffs[i].libmtp_val = Some(a[f])
                           /\ diffs[i].swiftmtp_val = None
                /\ \A f \in FileFields(b) \ FileFields(a) :
                       \E i \in 1..Len(diffs) :
                           /\ diffs[i].key = FileKey(p) \o <<".", f>>
                           /\ diffs[i].libmtp_val = None
                           /\ diffs[i].swiftmtp_val = Some(b[f])

\* The value of the first of the aliases that rec holds, default when it
\* holds none
RECURSIVE FirstAlias(_, _, _)
FirstAlias(rec, aliases, default) ==
    IF aliases = <<>> THEN default
    ELSE IF Head(aliases) \in DOMAIN rec THEN rec[Head(aliases)]
    ELSE FirstAlias(rec, Tail(aliases), default)

RawSwiftDevice == IF "device" \in DOMAIN swiftmtp_probe THEN swiftmtp_probe.device
                  ELSE swiftmtp_probe

RawSwiftStorages == IF "storages" \in DOMAIN RawSwiftDevice THEN RawSwiftDevice.storages
                    ELSE <<>>

\* The top-level entries of the listing that are files
RawSwiftTopFiles ==
    IF swiftmtp_ls.type # "list" THEN <<>>
    ELSE SelectSeq(swiftmtp_ls.value,
                   LAMBDA item : ~("type" \in DOMAIN item /\ item.type = "folder"))

(* C22: each canonical SwiftMTP field holds the value of the first alias   *)
(* the raw record has (firmwareVersion, firmware; friendlyName,            *)
(* friendly_name; capacityBytes, capacity_bytes; description, name; path,  *)
(* name; sizeBytes, size_bytes), the empty string or 0 when it has none,   *)
(* and normalisation goes through whatever fields are missing.             *)
ClaimAliasResolution ==
    Normalised =>
        /\ norm_swift.firmware =
               FirstAlias(RawSwiftDevice, <<"firmwareVersion", "firmware">>, "")
        /\ norm_swift.friendly_name =
               FirstAlias(RawSwiftDevice, <<"friendlyName", "friendly_name">>, "")
        /\ Len(norm_swift.storages) = Len(RawSwiftStorages)
        /\ \A i \in 1..Len(RawSwiftStorages) :
               \E j \in 1..Len(norm_swift.storages) :
                   /\ norm_swift.storages[j].description =
                          FirstAlias(RawSwiftStorages[i], <<"description", "name">>, <<>>)
                   /\ norm_swift.storages[j].capacity_bytes =
                          FirstAlias(RawSwiftStorages[i],
                                     <<"capacityBytes", "capacity_bytes">>, 0)
        /\ \A i \in 1..Len(RawSwiftTopFiles) :
               \E j \in 1..Len(swift_files) :
                   /\ swift_files[j].path =
                          FirstAlias(RawSwiftTopFiles[i], <<"path", "name">>, <<>>)
                   /\ swift_files[j].size_bytes =
                          FirstAlias(RawSwiftTopFiles[i], <<"sizeBytes", "size_bytes">>, 0)

IsDeviceDiff(e) == Head(e.key) = "device"

IsAbsence(e) == e.libmtp_val = None \/ e.swiftmtp_val = None

AllPaths == PathsOf(lib_files) \cup PathsOf(swift_files)

\* The file entry e is about the file at path p
EntryAbout(e, p) ==
    /\ ~IsDeviceDiff(e)
    /\ IF IsAbsence(e) THEN e.key = FileKey(p)
       ELSE e.key \in {FileKey(p) \o <<".", "size_bytes">>, MtimeKey(p)}

EntriesAbout(p) == {i \in 1..Len(diffs) : EntryAbout(diffs[i], p)}

(* C23: the device diffs come before the file diffs; the device diffs are  *)
(* in ascending order of field name; the file diffs are in ascending order *)
(* of path; and one path has either one absence entry, or at most one      *)
(* size_bytes entry followed by at most one mtime entry.                   *)
ClaimDiffOrder ==
    Diffed =>
        /\ \A i, j \in 1..Len(diffs) :
               (i < j /\ IsDeviceDiff(diffs[j])) => IsDeviceDiff(diffs[i])
        /\ \A i, j \in 1..Len(diffs) :
               (i < j /\ IsDeviceDiff(diffs[i]) /\ IsDeviceDiff(diffs[j])) =>
                   StrLess(<<diffs[i].key[3]>>, <<diffs[j].key[3]>>)
        /\ \A i \in 1..Len(diffs) :
               ~IsDeviceDiff(diffs[i]) => \E p \in AllPaths : EntryAbout(diffs[i], p)
        /\ \A p, q \in AllPaths : \A i \in EntriesAbout(p), j \in EntriesAbout(q) :
               StrLess(p, q) => i < j
        /\ \A p \in AllPaths :
               LET about   == EntriesAbout(p)
                   absent  == {i \in about : IsAbsence(diffs[i])}
                   sizes   == {i \in about : ~IsAbsence(diffs[i])
                                  /\ diffs[i].key = FileKey(p) \o <<".", "size_bytes">>}
                   mtimes  == {i \in about : ~IsAbsence(diffs[i])
                                  /\ diffs[i].key = MtimeKey(p)}
               IN  /\ Cardinality(absent) <= 1
                   /\ Cardinality(sizes) <= 1
                   /\ Cardinality(mtimes) <= 1
                   /\ absent # {} => sizes \cup mtimes = {}
                   /\ \A i \in sizes, j \in mtimes : i < j

\* Device diffs, both field entries of file a, and the absence entry of b
WitnessDiffOrder ==
    /\ Diffed
    /\ Len(diffs) >= 5
    /\ IsDeviceDiff(diffs[1])
    /\ IsDeviceDiff(diffs[2])
    /\ \E i \in 1..(Len(diffs) - 2) :
           /\ diffs[i].key = FileKey(NameA) \o <<".", "size_bytes">>
           /\ diffs[i + 1].key = MtimeKey(NameA)
           /\ diffs[i + 2].key = FileKey(NameB)
           /\ IsAbsence(diffs[i + 2])

Loaded == pc \notin {"collecting", "loading"}

\* The overlay's tolerances.timestamp_seconds, None when it defines none
OverlayTolerance ==
    IF "tolerances" \in DOMAIN expectations
       /\ "timestamp_seconds" \in DOMAIN expectations.tolerances
    THEN Some(expectations.tolerances.timestamp_seconds)
    ELSE None

\* n is the number x (held in tenths) cut to a whole number towards zero
TruncatedTo(x, n) ==
    IF x.tenths >= 0
    THEN 10 * n <= x.tenths /\ x.tenths < 10 * (n + 1)
    ELSE 10 * (n - 1) < x.tenths /\ x.tenths <= 10 * n

MetaRecordsTolerance ==
    pc = "done" => evidence[1].meta.ts_tolerance_seconds = ts_tol

RECURSIVE CountLabel(_, _)
CountLabel(ds, lbl) ==
    IF ds = <<>> THEN 0
    ELSE (IF Head(ds).label = lbl THEN 1 ELSE 0) + CountLabel(Tail(ds), lbl)

\* The sum of counts over the labels of keys
RECURSIVE SumCounts(_, _)
SumCounts(counts, keys) ==
    IF keys = {} THEN 0
    ELSE LET k == CHOOSE x \in keys : TRUE
         IN  counts[k] + SumCounts(counts, keys \ {k})

(* C25: the summary of a finished run holds a count for each of the five   *)
(* labels, 0 when no entry carries it; each count it holds is the number   *)
(* of diff entries with that label; and its counts add up to total_diffs,  *)
(* the number of diff entries.                                             *)
ClaimSummaryCounts ==
    pc = "done" =>
        LET summary == evidence[1].diff.summary
            counts  == summary.by_label
        IN  /\ _ALL_LABELS_SET \subseteq DOMAIN counts
            /\ \A lbl \in DOMAIN counts : counts[lbl] = CountLabel(diffs, lbl)
            /\ summary.total_diffs = Len(diffs)
            /\ SumCounts(counts, DOMAIN counts) = summary.total_diffs
            /\ Len(evidence[1].diff.diffs) = summary.total_diffs

\* A finished run with diffs under three of the five labels
WitnessSummaryCounts ==
    /\ pc = "done"
    /\ evidence[1].diff.summary.total_diffs >= 4
    /\ evidence[1].diff.summary.by_label[LABEL_INTENTIONAL] >= 1
    /\ evidence[1].diff.summary.by_label[LABEL_QUIRK_NEEDED] >= 2
    /\ evidence[1].diff.summary.by_label[LABEL_BUG_LIBMTP] >= 1
    /\ evidence[1].diff.summary.by_label[LABEL_UNKNOWN] = 0

\* The entry e of one side was compared with an entry of the other side of
\* the same path (others), or reported as present on its side only
TakesPart(e, others, mine_is_lib) ==
    IF e.path \in PathsOf(others)
    THEN \E k \in 1..Len(others) :
            /\ others[k].path = e.path
            /\ \/ others[k].size_bytes = e.size_bytes
               \/ \E i \in 1..Len(diffs) :
                     /\ diffs[i].key = FileKey(e.path) \o <<".", "size_bytes">>
                     /\ diffs[i].libmtp_val =
                            Some(IF mine_is_lib THEN e.size_bytes ELSE others[k].size_bytes)
                     /\ diffs[i].swiftmtp_val =
                            Some(IF mine_is_lib THEN others[k].size_bytes ELSE e.size_bytes)
    ELSE \E i \in 1..Len(diffs) :
            /\ diffs[i].key = FileKey(e.path)
            /\ diffs[i].libmtp_val = (IF mine_is_lib THEN Some(e) ELSE None)
            /\ diffs[i].swiftmtp_val = (IF mine_is_lib THEN None ELSE Some(e))

(* C26: every entry of each canonical file list is either compared with    *)
(* an entry of the same path on the other side or reported as present on   *)
(* one side only, also when a list holds two entries of one path.          *)
ClaimEveryEntryCompared ==
    Diffed =>
        /\ \A j \in 1..Len(lib_files) : TakesPart(lib_files[j], swift_files, TRUE)
        /\ \A j \in 1..Len(swift_files) : TakesPart(swift_files[j], lib_files, FALSE)

----------------------------------------------------------------------------
(* Claims on file patterns and on the outcome of failed collections *)

\* The diff entry e is about the file at path p
AboutPath(e, p) ==
    IF IsAbsence(e)
    THEN /\ e.key = FileKey(p)
         /\ \/ e.libmtp_val # None /\ e.libmtp_val[1].path = p
            \/ e.swiftmtp_val # None /\ e.swiftmtp_val[1].path = p
    ELSE e.key \in {FileKey(p) \o <<".", "size_bytes">>, MtimeKey(p)}

\* The overlay entries of all sections
OverlayEntriesOf(exp) ==
    UNION {{SectionEntries(exp, n)[j] : j \in 1..Len(SectionEntries(exp, n))} :
              n \in 1..3}

\* The pattern pt is file.<p> and e is about the file at p, or pt names
\* the very field entry e
PatternOwns(pt, e) ==
    /\ Len(pt) > 2
    /\ SubSeq(pt, 1, 2) = <<"file", ".">>
    /\ \/ AboutPath(e, SubSeq(pt, 3, Len(pt)))
       \/ ~IsAbsence(e) /\ e.key = pt

(* C27: a pattern file.<p> relabels the diffs about the file at path p and *)
(* no others: a classification step changes a file diff only if the       *)
(* overlay has a pattern for the file the diff is about; a diff about      *)
(* another path, such as p.txt, stays as it was.                           *)
ClaimFilePatternOwnFile ==
    [][\A i \in 1..Len(diffs) :
          (Len(diffs') = Len(diffs) /\ diffs'[i] # diffs[i]
              /\ Head(diffs[i].key) = "file") =>
             \E entry \in OverlayEntriesOf(expectations) :
                 "key" \in DOMAIN entry /\ PatternOwns(entry.key, diffs[i])]_vars

\* The collection of a side failed: a tool was not found or timed out, or
\* (SwiftMTP) wrote no JSON document
LibCollectionFailed ==
    \E t \in {"detect", "folders", "files"} : ToolFailed(completed[t])

SwiftCollectionFailed ==
    \E t \in {"probe", "ls"} : SwiftToolFailed(completed[t])

(* C28: a run in which the collection of one side or of both sides failed  *)
(* ends with a non-empty diff list and returns 1; a run that returns 0 had *)
(* both collections succeed.                                               *)
ClaimSuccessImpliesComparison ==
    (pc = "done" /\ (LibCollectionFailed \/ SwiftCollectionFailed)) =>
        /\ diffs # <<>>
        /\ exit_code = Some(1)

(* C29: termination of the coverage parser *)

\* The file-path header in force at line k of the text, if any
HeaderBefore(lines, k) ==
    LET headers == {j \in 1..(k - 1) : lines[j].kind = "path"}
    IN  IF headers = {} THEN None
        ELSE Some(lines[CHOOSE j \in headers : \A h \in headers : h <= j].file_path)

IsIgnoreLine(line) ==
    line.kind = "numbered" /\ ~line.blank /\ line.ignore

\* Every swiftcoverage:ignore line read so far is in ignored_lines of its
\* file, and no ignored line number is among the covered or uncovered ones
IgnoreLinesRecorded ==
    /\ \A k \in 1..parser.i :
          IsIgnoreLine(parser.lines[k]) /\ HeaderBefore(parser.lines, k) # None
              => \E n \in DOMAIN parser.files[HeaderBefore(parser.lines, k)[1]].ignored_lines :
                    parser.files[HeaderBefore(parser.lines, k)[1]].ignored_lines[n]
                        = parser.lines[k].line_num
    /\ \A f \in DOMAIN parser.files :
          \A n \in DOMAIN parser.files[f].ignored_lines :
             /\ \A m \in DOMAIN parser.files[f].covered_lines :
                   parser.files[f].covered_lines[m] # parser.files[f].ignored_lines[n]
             /\ \A m \in DOMAIN parser.files[f].uncovered_lines :
                   parser.files[f].uncovered_lines[m] # parser.files[f].ignored_lines[n]

\* C29: parse_llvm_cov_text terminates on every text, each pass of its loop
\* moving on by exactly one line, also at a numbered line after a file-path
\* header whose code is empty, a comment or marked swiftcoverage:ignore; the
\* marked lines are in ignored_lines and in neither other list.
ClaimParserTerminates ==
    /\ [][parser.pc = "parsing" /\ parser'.pc = "parsing"
              => parser'.i = parser.i + 1]_vars
    /\ [](parser.pc = "returned" => parser.i = Len(parser.lines))
    /\ [](parser.pc # "idle" => IgnoreLinesRecorded)
    /\ <>(parser.pc = "returned")

(* C30: exit code of the coverage gate *)

\* The modules named on the command line
SelectedModules == {gate.modules_arg[k] : k \in DOMAIN gate.modules_arg} \ {<<>>}

\* The file lies under /Sources/<module>/ of a selected module and has a
\* positive line count
Counted(item) ==
    /\ "filename" \in DOMAIN item
    /\ "count" \in DOMAIN item
    /\ item.count > 0
    /\ \E k \in DOMAIN item.filename :
          /\ item.filename[k] = "/Sources/"
          /\ k + 2 <= Len(item.filename)
          /\ <<item.filename[k + 1]>> \in SelectedModules
          /\ item.filename[k + 2] = "/"

RECURSIVE SumOver(_, _)
SumOver(items, field) ==
    IF items = <<>> THEN 0
    ELSE (IF Counted(Head(items)) THEN Head(items)[field] ELSE 0)
         + SumOver(Tail(items), field)

RECURSIVE SumModules(_, _, _)
SumModules(modules, names, field) ==
    IF names = {} THEN 0
    ELSE LET m == CHOOSE n \in names : TRUE
         IN  modules[m][field] + SumModules(modules, names \ {m}, field)

\* C30: main returns 2 without a coverage JSON, with an empty module list or
\* with no counted file; otherwise 0 exactly when 100 * covered / count over
\* the counted files is at least the threshold, and 1 if not; the status is
\* pass exactly at exit code 0 and the overall totals are the sums of the
\* module totals.
ClaimGateExitCode ==
    gate.pc = "returned" =>
        LET covered == SumOver(gate.files, "covered")
            count == SumOver(gate.files, "count")
        IN  IF ~gate.exists \/ SelectedModules = {} \/ count = 0
            THEN gate.exit_code = Some(2)
            ELSE /\ gate.exit_code =
                        IF 100 * covered >= gate.threshold * count
                        THEN Some(0) ELSE Some(1)
                 /\ gate.payload # None
                 /\ gate.payload[1].status = "pass" <=> gate.exit_code = Some(0)
                 /\ gate.payload[1].overall.covered
                        = SumModules(gate.payload[1].modules, DOMAIN gate.payload[1].modules,
                                     "covered")
                 /\ gate.payload[1].overall.count
                        = SumModules(gate.payload[1].modules, DOMAIN gate.payload[1].modules,
                                     "count")

====
